---- MODULE Spec2Model ----
(***************************************************************************)
(* Conversational request pipeline of the personal assistant backend:      *)
(* intent classification and time parsing (services/nlu.py), response      *)
(* generation with provider fallback (services/ai_services.py), the chat   *)
(* endpoint (main.py), the PostgreSQL helpers (db/utils.py) and the Redis  *)
(* recent-history cache (db/redis_utils.py).                               *)
(*                                                                         *)
(* Python str values are sequences of one-character strings, so that       *)
(* strip(), lower(), replace(), substring tests and the regular            *)
(* expressions are computed character by character.  An Optional value is  *)
(* None == << >> or Some(x) == << x >>.                                    *)
(***************************************************************************)
EXTENDS Integers, Sequences, FiniteSets, TLC

\* ------------------------------------------------------------------ bounds
\* Number of chat requests handled in one behaviour of Spec.
MaxTurns == 2
\* Number of chat requests handled in one behaviour of SpecFaults.
MaxFaultTurns == 2
\* Number of entries pushed to Redis in one behaviour of SpecCache.
MaxPush == 12
\* Largest number of turns already stored in a conversation in SpecHistory.
MaxStored == 52
\* Number of context aggregations run in one behaviour of SpecContext.
MaxRuns == 2

\* ---------------------------------------------------------- Python values
None == << >>
Some(x) == << x >>
IsNone(o) == o = << >>
Val(o) == o[1]

MinOf(S) == CHOOSE i \in S : \A j \in S : i <= j

\* ------------------------------------------------------------ str methods
WS == {" ", "\t", "\n"}
DIGIT == {"0", "1", "2", "3", "4", "5", "6", "7", "8", "9"}
WORDCH == DIGIT \cup {"a","b","c","d","e","f","g","h","i","j","k","l","m","n","o","p","q","r","s","t","u","v","w","x","y","z","_"}
     \cup {"A","B","C","D","E","F","G","H","I","J","K","L","M","N","O","P","Q","R","S","T","U","V","W","X","Y","Z"}

UpperToLower ==
  [c \in {"A","B","C","D","E","F","G","H","I","J","K","L","M","N","O","P","Q","R","S","T","U","V","W","X","Y","Z"} |->
     CASE c = "A" -> "a" [] c = "B" -> "b" [] c = "C" -> "c" [] c = "D" -> "d" [] c = "E" -> "e"
       [] c = "F" -> "f" [] c = "G" -> "g" [] c = "H" -> "h" [] c = "I" -> "i" [] c = "J" -> "j"
       [] c = "K" -> "k" [] c = "L" -> "l" [] c = "M" -> "m" [] c = "N" -> "n" [] c = "O" -> "o"
       [] c = "P" -> "p" [] c = "Q" -> "q" [] c = "R" -> "r" [] c = "S" -> "s" [] c = "T" -> "t"
       [] c = "U" -> "u" [] c = "V" -> "v" [] c = "W" -> "w" [] c = "X" -> "x" [] c = "Y" -> "y"
       [] c = "Z" -> "z"]

\* s.lower()
Lower(s) == [i \in 1..Len(s) |-> IF s[i] \in DOMAIN UpperToLower THEN UpperToLower[s[i]] ELSE s[i]]

\* s[i:] with the model's 1-based i
From(s, i) == SubSeq(s, i, Len(s))

\* s.strip()
Strip(s) ==
  LET keep == {i \in 1..Len(s) : s[i] \notin WS}
  IN IF keep = {} THEN << >>
     ELSE SubSeq(s, MinOf(keep), CHOOSE i \in keep : \A j \in keep : j <= i)

\* s.startswith(p, i-1)
At(s, p, i) == i >= 1 /\ i + Len(p) - 1 <= Len(s) /\ SubSeq(s, i, i + Len(p) - 1) = p
StartsWith(s, p) == At(s, p, 1)
EndsWith(s, p) == At(s, p, Len(s) - Len(p) + 1)

\* s.find(p, from-1) + 1: index of the first occurrence at or after from, 0 if none
Find(s, p, from) ==
  LET idx == {i \in from..(Len(s) - Len(p) + 1) : At(s, p, i)}
  IN IF idx = {} THEN 0 ELSE MinOf(idx)

\* p in s
Contains(s, p) == Find(s, p, 1) # 0

\* s.replace(p, ""), p non-empty: every non-overlapping occurrence, left to right
RECURSIVE Remove(_, _)
Remove(s, p) ==
  LET i == Find(s, p, 1)
  IN IF i = 0 THEN s
     ELSE SubSeq(s, 1, i - 1) \o Remove(From(s, i + Len(p)), p)

\* number of leading characters of s[i:] that are in the class C (a greedy C*)
RECURSIVE Run(_, _, _)
Run(s, i, C) == IF i <= Len(s) /\ s[i] \in C THEN 1 + Run(s, i + 1, C) ELSE 0

\* int(digits)
DigitVal(c) ==
  CASE c = "0" -> 0 [] c = "1" -> 1 [] c = "2" -> 2 [] c = "3" -> 3 [] c = "4" -> 4
    [] c = "5" -> 5 [] c = "6" -> 6 [] c = "7" -> 7 [] c = "8" -> 8 [] c = "9" -> 9
RECURSIVE ToInt(_)
ToInt(ds) == IF ds = << >> THEN 0 ELSE 10 * ToInt(SubSeq(ds, 1, Len(ds) - 1)) + DigitVal(ds[Len(ds)])

\* ------------------------------------------------- nlu.parse_time_string
\* A datetime is [day, hh, mm, ss]: day is the proleptic Gregorian ordinal of
\* the date (date.toordinal()), the rest the wall clock in IST.
Ts(day, hh, mm, ss) == [day |-> day, hh |-> hh, mm |-> mm, ss |-> ss]

\* str(n) for n >= 0, and its zero-padded forms %02d and %04d
DigitChar(d) == <<"0", "1", "2", "3", "4", "5", "6", "7", "8", "9">>[d + 1]
RECURSIVE Dec(_)
Dec(n) == IF n < 10 THEN <<DigitChar(n)>> ELSE Dec(n \div 10) \o <<DigitChar(n % 10)>>
Pad2(n) == IF n < 10 THEN <<"0">> \o Dec(n) ELSE Dec(n)
Pad4(n) == IF n < 10 THEN <<"0","0","0">> \o Dec(n) ELSE IF n < 100 THEN <<"0","0">> \o Dec(n)
           ELSE IF n < 1000 THEN <<"0">> \o Dec(n) ELSE Dec(n)

\* date.fromordinal(day) as <<year, month, day of month>>
DAYS_BEFORE_MONTH == <<0, 31, 59, 90, 120, 151, 181, 212, 243, 273, 304, 334>>
DaysInMonth(leap, m) ==
  IF m = 2 THEN (IF leap THEN 29 ELSE 28) ELSE IF m \in {4, 6, 9, 11} THEN 30 ELSE 31
Ord2Ymd(ord) ==
  LET n0   == ord - 1
      n400 == n0 \div 146097
      r400 == n0 % 146097
      n100 == r400 \div 36524
      r100 == r400 % 36524
      n4   == r100 \div 1461
      r4   == r100 % 1461
      n1   == r4 \div 365
      n    == r4 % 365
      year == n400 * 400 + 1 + n100 * 100 + n4 * 4 + n1
      leap == n1 = 3 /\ (n4 # 24 \/ n100 = 3)
      m0   == (n + 50) \div 32
      p0   == DAYS_BEFORE_MONTH[m0] + (IF m0 > 2 /\ leap THEN 1 ELSE 0)
      m    == IF p0 > n THEN m0 - 1 ELSE m0
      p    == IF p0 > n THEN p0 - DaysInMonth(leap, m0 - 1) ELSE p0
  IN IF n1 = 4 \/ n100 = 4 THEN <<year - 1, 12, 31>> ELSE <<year, m, n - p + 1>>

\* dt.strftime("%Y-%m-%d %H:%M:%S")
Strftime(t) ==
  LET ymd == Ord2Ymd(t.day)
  IN Pad4(ymd[1]) \o <<"-">> \o Pad2(ymd[2]) \o <<"-">> \o Pad2(ymd[3]) \o <<" ">>
     \o Pad2(t.hh) \o <<":">> \o Pad2(t.mm) \o <<":">> \o Pad2(t.ss)

\* A call's outcome: a returned value, or an exception that propagates.
Ret(v) == [raised |-> FALSE, value |-> v]
Raise(e) == [raised |-> TRUE, value |-> e]

\* _strptime's %I: 1[0-2]|0[1-9]|[1-9], number of characters matched at i (0: none)
MatchI(s, i) ==
  IF i + 1 <= Len(s) /\ s[i] = "1" /\ s[i + 1] \in {"0", "1", "2"} THEN 2
  ELSE IF i + 1 <= Len(s) /\ s[i] = "0" /\ s[i + 1] \in DIGIT \ {"0"} THEN 2
  ELSE IF i <= Len(s) /\ s[i] \in DIGIT \ {"0"} THEN 1
  ELSE 0

\* _strptime's %M: [0-5]\d|\d
MatchM(s, i) ==
  IF i + 1 <= Len(s) /\ s[i] \in {"0", "1", "2", "3", "4", "5"} /\ s[i + 1] \in DIGIT THEN 2
  ELSE IF i <= Len(s) /\ s[i] \in DIGIT THEN 1
  ELSE 0

\* _strptime's %p (am|pm, IGNORECASE), which must end the string
MatchP(s, i) ==
  IF i + 1 = Len(s) /\ Lower(SubSeq(s, i, i + 1)) \in {<<"a","m">>, <<"p","m">>}
  THEN Some(Lower(SubSeq(s, i, i + 1))) ELSE None

\* %I and %p to a 24-hour clock
Hour24(h, p) == IF p = <<"a","m">> THEN (IF h = 12 THEN 0 ELSE h) ELSE (IF h = 12 THEN 12 ELSE h + 12)

\* datetime.strptime(s, "%I:%M %p").time(): Some(<<hh, mm>>), or None for ValueError
StrptimeIMp(s) ==
  LET nI == MatchI(s, 1)
      c  == 1 + nI
      nM == MatchM(s, c + 1)
      w  == c + 1 + nM
      nW == Run(s, w, WS)
      p  == MatchP(s, w + nW)
  IN IF nI = 0 \/ ~At(s, <<":">>, c) \/ nM = 0 \/ nW = 0 \/ IsNone(p) THEN None
     ELSE Some(<<Hour24(ToInt(SubSeq(s, 1, nI)), Val(p)), ToInt(SubSeq(s, c + 1, c + nM))>>)

\* datetime.strptime(s, "%I %p").time()
StrptimeIp(s) ==
  LET nI == MatchI(s, 1)
      nW == Run(s, 1 + nI, WS)
      p  == MatchP(s, 1 + nI + nW)
  IN IF nI = 0 \/ nW = 0 \/ IsNone(p) THEN None
     ELSE Some(<<Hour24(ToInt(SubSeq(s, 1, nI)), Val(p)), 0>>)

\* re.search(r'in\s+(\d+)\s+(minute|minutes|hour|hours)', s): the leftmost
\* match as Some([amount, unit]); "minute" and "hour" are tried before their
\* plurals, so group(2) never carries the final "s".
RelUnitAt(s, i) ==
  IF At(s, <<"m","i","n","u","t","e">>, i) THEN <<"m","i","n","u","t","e">>
  ELSE IF At(s, <<"h","o","u","r">>, i) THEN <<"h","o","u","r">>
  ELSE << >>
RelMatchAt(s, i) ==
  LET w1 == Run(s, i + 2, WS)
      d  == i + 2 + w1
      nD == Run(s, d, DIGIT)
      w2 == Run(s, d + nD, WS)
      u  == d + nD + w2
  IN At(s, <<"i","n">>, i) /\ w1 > 0 /\ nD > 0 /\ w2 > 0 /\ RelUnitAt(s, u) # << >>
RelSearch(s) ==
  LET idx == {i \in 1..Len(s) : RelMatchAt(s, i)}
  IN IF idx = {} THEN None
     ELSE LET i  == MinOf(idx)
              d  == i + 2 + Run(s, i + 2, WS)
              nD == Run(s, d, DIGIT)
              u  == d + nD + Run(s, d + nD, WS)
          IN Some([amount |-> ToInt(SubSeq(s, d, d + nD - 1)), unit |-> RelUnitAt(s, u),
                   start |-> i, end |-> u + Len(RelUnitAt(s, u)) - 1])

\* AddMinutes, were the minutes not carried into the hours and the days.
AddMinutesNoCarry(now, hours, minutes) ==
  IF now.day + ((now.hh + hours) \div 24) > 3652059 THEN Raise("OverflowError")
  ELSE Ret(Some(Strftime(Ts(now.day + ((now.hh + hours) \div 24), (now.hh + hours) % 24,
                            (now.mm + minutes) % 60, now.ss))))

\* now_local + timedelta(...): OverflowError past datetime.max (9999-12-31)
AddMinutes(now, hours, minutes) ==
  LET m   == now.mm + minutes
      h   == now.hh + hours + (m \div 60)
      day == now.day + (h \div 24)
  IN IF day > 3652059 THEN Raise("OverflowError")
     ELSE Ret(Some(Strftime(Ts(day, h % 24, m % 60, now.ss))))

\* lines 18-31: strip, drop ".", lowercase, take out the day word, space the meridiem
DropDayWord(s) ==
  IF Contains(s, <<"t","o","m","o","r","r","o","w">>) THEN Strip(Remove(s, <<"t","o","m","o","r","r","o","w">>))
  ELSE IF Contains(s, <<"t","o","d","a","y">>) THEN Strip(Remove(s, <<"t","o","d","a","y">>))
  ELSE s
SpaceMeridiem(s) ==
  IF (EndsWith(s, <<"a","m">>) \/ EndsWith(s, <<"p","m">>)) /\ ~(Len(s) >= 3 /\ s[Len(s) - 2] \in WS)
  THEN SubSeq(s, 1, Len(s) - 2) \o <<" ">> \o SubSeq(s, Len(s) - 1, Len(s))
  ELSE s
NormalizeTime(time_str) ==
  SpaceMeridiem(DropDayWord(Lower(Remove(Strip(time_str), <<".">>))))

\* DayOffset, were "tomorrow" not looked for.
DayOffsetNever(time_str) == 0

DayOffset(time_str) ==
  IF Contains(Lower(Remove(Strip(time_str), <<".">>)), <<"t","o","m","o","r","r","o","w">>) THEN 1 ELSE 0

\* lines 34-57: the first of "%I:%M %p", "%I %p" and the relative pattern that
\* matches decides; day is the date the clock time is put on
FirstParse(t1, t2, rel, day, now) ==
  IF ~IsNone(t1) THEN Ret(Some(Strftime(Ts(day, Val(t1)[1], Val(t1)[2], 0))))
  ELSE IF ~IsNone(t2) THEN Ret(Some(Strftime(Ts(day, Val(t2)[1], Val(t2)[2], 0))))
  ELSE IF ~IsNone(rel)
       THEN IF Contains(Val(rel).unit, <<"h","o","u","r">>)
            THEN AddMinutes(now, Val(rel).amount, 0)
            ELSE AddMinutes(now, 0, Val(rel).amount)
  ELSE Ret(None)
ParseNormalized(s, day, now) == FirstParse(StrptimeIMp(s), StrptimeIp(s), RelSearch(s), day, now)

\* parse_time_string(time_str) at the instant now: Ret(Some("YYYY-MM-DD HH:MM:SS")),
\* Ret(None), or the OverflowError of the timedelta addition
parse_time_string(time_str, now) ==
  IF time_str = << >> THEN Ret(None)
  ELSE ParseNormalized(NormalizeTime(time_str), now.day + DayOffset(time_str), now)

\* -------------------------------------------- nlu.get_structured_intent
\* length of the run of characters other than "\n" from i on (what ".+" can take)
RECURSIVE LineLen(_, _)
LineLen(s, i) == IF i <= Len(s) /\ s[i] # "\n" THEN 1 + LineLen(s, i + 1) ELSE 0

\* re.sub(r'^(please\s+|please,\s+|can you\s+|could you\s+|would you\s+)', '', msg)
COURTESY == <<<<"p","l","e","a","s","e">>, <<"p","l","e","a","s","e",",">>, <<"c","a","n"," ","y","o","u">>, <<"c","o","u","l","d"," ","y","o","u">>, <<"w","o","u","l","d"," ","y","o","u">>>>
StripCourtesy(msg) ==
  LET hit == {k \in 1..Len(COURTESY) :
                StartsWith(msg, COURTESY[k]) /\ Run(msg, Len(COURTESY[k]) + 1, WS) > 0}
  IN IF hit = {} THEN msg
     ELSE LET p == COURTESY[MinOf(hit)]
          IN From(msg, Len(p) + 1 + Run(msg, Len(p) + 1, WS))

\* re.match(HEAD + r"(.+?)" + sep + r"(.+)", s) with HEAD ending before index
\* start: the lazy group stops at the first sep that leaves something for the
\* last group.  Some([g1, g2]) or None.
LazySplit(s, start, sep) ==
  LET idx == {i \in (start + 1)..Len(s) :
                /\ At(s, sep, i)
                /\ LineLen(s, start) >= i - start
                /\ LineLen(s, i + Len(sep)) > 0}
  IN IF idx = {} THEN None
     ELSE LET i == MinOf(idx)
          IN Some([g1 |-> SubSeq(s, start, i - 1),
                   g2 |-> SubSeq(s, i + Len(sep), i + Len(sep) + LineLen(s, i + Len(sep)) - 1)])

\* the first of the heads that starts s, as the index after it; 0 if none does
AfterHead(s, heads) ==
  LET hit == {k \in 1..Len(heads) : StartsWith(s, heads[k])}
  IN IF hit = {} THEN 0 ELSE Len(heads[MinOf(hit)]) + 1

\* r"(.+?)(?: at (.+))?$" matched from index start: Some([g1, g2]) with g2 an
\* Optional, or None when nothing (or a line break) is left to match
TailSplit(s, start) ==
  IF start > Len(s) \/ LineLen(s, start) < Len(s) - start + 1 THEN None
  ELSE LET idx == {i \in (start + 1)..Len(s) : At(s, <<" ","a","t"," ">>, i) /\ i + 4 <= Len(s)}
       IN IF idx = {} THEN Some([g1 |-> From(s, start), g2 |-> None])
          ELSE Some([g1 |-> SubSeq(s, start, MinOf(idx) - 1),
                     g2 |-> Some(From(s, MinOf(idx) + 4))])

\* (?:\d{1,2}(?::\d{2})?\s?(?:am|pm)) at i: the length matched, 0 if none.
\* A choice <<k, c, w>> takes k digits, the minutes iff c = 1 and a blank iff
\* w = 1; greedy choices are tried first.
CLOCK_CHOICES == <<<<2, 1, 1>>, <<2, 1, 0>>, <<2, 0, 1>>, <<2, 0, 0>>,
                   <<1, 1, 1>>, <<1, 1, 0>>, <<1, 0, 1>>, <<1, 0, 0>>>>
ClockEnd(s, i, ch) ==
  LET j1 == i + ch[1]
      j2 == IF ch[2] = 1 THEN j1 + 3 ELSE j1
      j3 == IF ch[3] = 1 THEN j2 + 1 ELSE j2
  IN IF /\ Run(s, i, DIGIT) >= ch[1]
        /\ (ch[2] = 1 => At(s, <<":">>, j1) /\ Run(s, j1 + 1, DIGIT) >= 2)
        /\ (ch[3] = 1 => j2 <= Len(s) /\ s[j2] \in WS)
        /\ (At(s, <<"a","m">>, j3) \/ At(s, <<"p","m">>, j3))
     THEN j3 + 2 ELSE 0
ClockMatchLen(s, i) ==
  LET ok == {n \in 1..Len(CLOCK_CHOICES) : ClockEnd(s, i, CLOCK_CHOICES[n]) # 0}
  IN IF ok = {} THEN 0 ELSE ClockEnd(s, i, CLOCK_CHOICES[MinOf(ok)]) - i

\* \b(?:today|tomorrow)\b at i
IsWordAt(s, i) == i >= 1 /\ i <= Len(s) /\ s[i] \in WORDCH
DayMatchLen(s, i) ==
  LET word == IF At(s, <<"t","o","d","a","y">>, i) THEN <<"t","o","d","a","y">>
              ELSE IF At(s, <<"t","o","m","o","r","r","o","w">>, i) THEN <<"t","o","m","o","r","r","o","w">> ELSE << >>
  IN IF word # << >> /\ ~IsWordAt(s, i - 1) /\ ~IsWordAt(s, i + Len(word))
     THEN Len(word) ELSE 0

\* in\s+\d+\s+(?:minute|minutes|hour|hours) at i
RelMatchLen(s, i) ==
  IF RelMatchAt(s, i)
  THEN LET d == i + 2 + Run(s, i + 2, WS)
           u == d + Run(s, d, DIGIT) + Run(s, d + Run(s, d, DIGIT), WS)
       IN u + Len(RelUnitAt(s, u)) - i
  ELSE 0

\* lines 104, 120: tsrch = re.search(<clock>|<day>|<relative>, title); group(1)
EmbeddedLen(s, i) ==
  IF ClockMatchLen(s, i) > 0 THEN ClockMatchLen(s, i)
  ELSE IF DayMatchLen(s, i) > 0 THEN DayMatchLen(s, i)
  ELSE RelMatchLen(s, i)
EmbeddedAt(title, i) == Some(SubSeq(title, i, i + EmbeddedLen(title, i) - 1))
EmbeddedTime(title) ==
  LET idx == {i \in 1..Len(title) : EmbeddedLen(title, i) > 0}
  IN IF idx = {} THEN None ELSE EmbeddedAt(title, MinOf(idx))

TaskData(title, datetime) ==
  [title |-> title, datetime |-> datetime, priority |-> "medium",
   category |-> "personal", notes |-> ""]

\* the create_task intent with the given title, or the exception the time parse raised
TaskResult(title, parsed) ==
  IF parsed.raised THEN parsed
  ELSE Ret([action |-> "create_task", data |-> TaskData(title, parsed.value)])
\* parse_time_string(time_part) if time_part else None
ParseOptional(time_part, now) ==
  IF IsNone(time_part) \/ time_part = Some(<< >>) THEN Ret(None)
  ELSE parse_time_string(Val(time_part), now)
\* lines 105-108: tsrch is the time found in the title, None if none was found
\* or none was looked for; a time found is taken out of the title
TaskFromSearch(title0, given, tsrch, now) ==
  TaskResult(IF IsNone(tsrch) THEN title0 ELSE Strip(Remove(title0, Val(tsrch))),
             ParseOptional(IF IsNone(tsrch) THEN given ELSE tsrch, now))
\* lines 103-104: the title is searched only if the rule captured no time
TaskFromParts(title0, given, now) ==
  TaskFromSearch(title0, given,
                 IF IsNone(given) \/ given = Some(<< >>) THEN EmbeddedTime(title0) ELSE None,
                 now)

\* lines 101-112 and 117-125: the shared tail of the reminder and flexible rules
TaskFromGroups(g, now) ==
  TaskFromParts(Strip(g.g1), IF IsNone(g.g2) THEN None ELSE Some(Strip(Val(g.g2))), now)

\* (?:add|create)(?: me)?(?: a)?(?: task| reminder)?(?: to)? : every index the
\* optional groups can end at, in the order backtracking tries them
RECURSIVE Expand(_, _, _)
Expand(s, ps, pieces) ==
  IF ps = << >> THEN << >>
  ELSE LET p == Head(ps)
           taken == [k \in 1..Len(pieces) |->
                       IF At(s, pieces[k], p) THEN <<p + Len(pieces[k])>> ELSE << >>]
           RECURSIVE Cat(_)
           Cat(k) == IF k > Len(pieces) THEN << >> ELSE taken[k] \o Cat(k + 1)
       IN Cat(1) \o <<p>> \o Expand(s, Tail(ps), pieces)
FlexStart(s) ==
  LET h  == AfterHead(s, <<<<"a","d","d">>, <<"c","r","e","a","t","e">>>>)
      p1 == Expand(s, <<h>>, <<<<" ","m","e">>>>)
      p2 == Expand(s, p1, <<<<" ","a">>>>)
      p3 == Expand(s, p2, <<<<" ","t","a","s","k">>, <<" ","r","e","m","i","n","d","e","r">>>>)
      p4 == Expand(s, p3, <<<<" ","t","o">>>>)
      ok == {k \in 1..Len(p4) : At(s, <<" ">>, p4[k]) /\ ~IsNone(TailSplit(s, p4[k] + 1))}
  IN IF h = 0 \/ ok = {} THEN 0 ELSE p4[MinOf(ok)] + 1

\* lines 139-145: the query of an external-app request
VERBS == <<<<"p","l","a","y">>, <<"s","e","a","r","c","h">>, <<"f","i","n","d">>, <<"o","p","e","n">>, <<"l","a","u","n","c","h">>, <<"g","o"," ","t","o">>>>
AppQuery(msg, app) ==
  LET v    == AfterHead(msg, VERBS)
      tail == <<" ","o","n"," ">> \o app
      idx  == {i \in (v + 2)..Len(msg) :
                 /\ At(msg, tail, i)
                 /\ ~IsWordAt(msg, i + Len(tail))
                 /\ LineLen(msg, v + 1) >= i - v - 1}
      sepn == Run(msg, Len(app) + 1, {":", "-"} \cup WS)
      rest == Len(app) + 1 + sepn
  IN IF v # 0 /\ At(msg, <<" ">>, v) /\ idx # {}
     THEN Strip(SubSeq(msg, v + 1, MinOf(idx) - 1))
     ELSE IF StartsWith(msg, app) /\ sepn >= 1 /\ rest <= Len(msg)
     THEN Strip(SubSeq(msg, rest, rest + LineLen(msg, rest) - 1))
     ELSE IF StartsWith(msg, app) /\ sepn >= 2
     THEN Strip(<<msg[Len(msg)]>>)
     ELSE << >>

external_apps == <<<<"y","o","u","t","u","b","e">>, <<"m","a","p","s">>, <<"w","h","a","t","s","a","p","p">>, <<"s","p","o","t","i","f","y">>, <<"i","n","s","t","a","g","r","a","m">>>>

\* lines 75-148: the rules, tried in order on the normalised message
Classify(msg, now) ==
  LET fact  == LazySplit(msg, AfterHead(msg, <<<<"s","a","v","e"," ","f","a","c","t"," ">>, <<"r","e","m","e","m","b","e","r"," ","f","a","c","t"," ">>>>), <<" ","a","s"," ">>)
      gfact == LazySplit(msg, AfterHead(msg, <<<<"r","e","m","e","m","b","e","r"," ">>, <<"m","y"," ">>>>), <<" ","i","s"," ">>)
      task  == LazySplit(msg, AfterHead(msg, <<<<"c","r","e","a","t","e"," ","t","a","s","k"," ">>, <<"a","d","d"," ","t","a","s","k"," ">>>>), <<" ","d","u","e"," ">>)
      rem   == TailSplit(msg, AfterHead(msg, <<<<"r","e","m","i","n","d"," ","m","e"," ","t","o"," ">>>>))
      flex  == FlexStart(msg)
      apps  == {k \in 1..Len(external_apps) : Contains(msg, external_apps[k])}
  IN IF AfterHead(msg, <<<<"s","a","v","e"," ","f","a","c","t"," ">>, <<"r","e","m","e","m","b","e","r"," ","f","a","c","t"," ">>>>) # 0 /\ ~IsNone(fact)
     THEN Ret([action |-> "save_fact",
               data |-> [key |-> Strip(Val(fact).g1), value |-> Strip(Val(fact).g2)]])
     ELSE IF AfterHead(msg, <<<<"r","e","m","e","m","b","e","r"," ">>, <<"m","y"," ">>>>) # 0 /\ ~IsNone(gfact)
     THEN Ret([action |-> "save_fact",
               data |-> [key |-> Strip(Val(gfact).g1), value |-> Strip(Val(gfact).g2)]])
     ELSE IF AfterHead(msg, <<<<"c","r","e","a","t","e"," ","t","a","s","k"," ">>, <<"a","d","d"," ","t","a","s","k"," ">>>>) # 0 /\ ~IsNone(task)
     THEN TaskResult(Strip(Val(task).g1), parse_time_string(Strip(Val(task).g2), now))
     ELSE IF AfterHead(msg, <<<<"r","e","m","i","n","d"," ","m","e"," ","t","o"," ">>>>) # 0 /\ ~IsNone(rem)
     THEN TaskFromGroups(Val(rem), now)
     ELSE IF flex # 0
     THEN TaskFromGroups(Val(TailSplit(msg, flex)), now)
     ELSE IF \E k \in {<<"s","h","o","w"," ","t","a","s","k","s">>, <<"l","i","s","t"," ","t","a","s","k","s">>, <<"m","y"," ","t","a","s","k","s">>} : Contains(msg, k)
     THEN Ret([action |-> "fetch_tasks"])
     ELSE IF \E k \in {<<"s","h","o","w"," ","c","h","a","t"," ","h","i","s","t","o","r","y">>, <<"l","a","s","t"," ","c","h","a","t","s">>, <<"p","r","e","v","i","o","u","s"," ","m","e","s","s","a","g","e","s">>} : Contains(msg, k)
     THEN Ret([action |-> "get_chat_history"])
     ELSE IF apps # {}
     THEN Ret([action |-> "open_external",
               data |-> [target |-> external_apps[MinOf(apps)],
                         query |-> AppQuery(msg, external_apps[MinOf(apps)])]])
     ELSE Ret([action |-> "general_chat"])

\* get_structured_intent, were the task keywords looked for before the rules.
KeywordsFirst(user_message, now) ==
  IF \E w \in {<<"s","h","o","w"," ","t","a","s","k","s">>, <<"l","i","s","t"," ","t","a","s","k","s">>, <<"m","y"," ","t","a","s","k","s">>} :
       Contains(StripCourtesy(Strip(Lower(user_message))), w)
  THEN Ret([action |-> "fetch_tasks"])
  ELSE Classify(StripCourtesy(Strip(Lower(user_message))), now)

\* get_structured_intent(user_message) at the instant now: Ret(intent), or the
\* exception parse_time_string raised.  An intent is [action, data] or [action].
get_structured_intent(user_message, now) ==
  Classify(StripCourtesy(Strip(Lower(user_message))), now)

\* ------------------------------------------- ai_services.get_response
\* "\n".join(lines)
RECURSIVE Join(_)
Join(lines) ==
  IF lines = << >> THEN << >>
  ELSE IF Len(lines) = 1 THEN lines[1]
  ELSE lines[1] \o <<"\n">> \o Join(Tail(lines))

\* The two shapes an argument of get_response takes: the dict its docstring
\* asks for and the plain str the chat endpoint passes.
PyDict(sender, text) == [type |-> "dict", sender |-> sender, text |-> text]
PyStr(s) == [type |-> "str", value |-> s]

\* bool(x) of an Optional[str]
Truthy(o) == o # None /\ o # Some(<< >>)

\* app.prompt_templates.MAIN_SYSTEM_PROMPT, a fixed text defined outside src/
MAIN_SYSTEM_PROMPT == <<"<","M","A","I","N","_","S","Y","S","T","E","M","_","P","R","O","M","P","T",">">>
GENERATION_FAILED == <<"S","o","r","r","y",","," ","I"," ","c","o","u","l","d","n","'","t"," ","g","e","n","e","r","a","t","e"," ","a"," ","r","e","s","p","o","n","s","e",".">>
NOT_SURE == <<"I","'","m"," ","n","o","t"," ","s","u","r","e"," ","h","o","w"," ","t","o"," ","r","e","s","p","o","n","d"," ","t","o"," ","t","h","a","t",".">>
\* (the source spells "didn't" with a typographic apostrophe)
DIDNT_CATCH == <<"I"," ","d","i","d","n","'","t"," ","c","a","t","c","h"," ","t","h","a","t","."," ","C","o","u","l","d"," ","y","o","u"," ","s","a","y"," ","i","t"," ","a","g","a","i","n","?">>

\* lines 50-57: the prompt handed to every backend
BuildPrompt(matches, neo4j_facts, history, user_text) ==
  MAIN_SYSTEM_PROMPT \o <<"\n","\n","=","=","="," ","U","s","e","r"," ","C","o","n","t","e","x","t"," ","=","=","=","\n">> \o Join(matches)
    \o <<"\n","\n","=","=","="," ","K","n","o","w","l","e","d","g","e"," ","B","a","s","e"," ","F","a","c","t","s"," ","=","=","=","\n">> \o neo4j_facts
    \o <<"\n","\n","=","=","="," ","C","h","a","t"," ","H","i","s","t","o","r","y"," ","=","=","=","\n">> \o history
    \o <<"\n","\n","U","s","e","r",":"," ">> \o user_text \o <<"\n","A","s","s","i","s","t","a","n","t",":">>

\* line 71: result.text.strip() if hasattr(result, "text") else str(result)
GeminiText(result) == IF result.has_text THEN Strip(result.text) ELSE result.str
\* lines 85, 99: result.generations[0].text.strip()
CohereText(result) == Strip(result)

\* lines 89-101: the branch taken when AI_PROVIDER is "cohere"
GenerateCohereOnly(settings, env) ==
  IF env.cohere.raised THEN [text |-> GENERATION_FAILED, calls |-> <<"cohere">>]
  ELSE [text |-> CohereText(env.cohere.value), calls |-> <<"cohere">>]

\* lines 73-87: the except branch of the Gemini call
GeminiFallback(settings, env) ==
  IF settings.cohere /\ Truthy(settings.COHERE_API_KEY)
  THEN IF env.cohere.raised
       THEN [text |-> GENERATION_FAILED, calls |-> <<"gemini", "cohere">>]
       ELSE [text |-> CohereText(env.cohere.value), calls |-> <<"gemini", "cohere">>]
  ELSE [text |-> GENERATION_FAILED, calls |-> <<"gemini">>]

\* Generate, were blank text of the first backend treated as a failure.
GenerateFallbackOnBlank(settings, env) ==
  IF Lower(settings.AI_PROVIDER) = <<"g","e","m","i","n","i">>
  THEN IF env.gemini.raised \/ GeminiText(env.gemini.value) = << >>
       THEN GeminiFallback(settings, env)
       ELSE [text |-> GeminiText(env.gemini.value), calls |-> <<"gemini">>]
  ELSE IF Lower(settings.AI_PROVIDER) = <<"c","o","h","e","r","e">> /\ settings.cohere
  THEN GenerateCohereOnly(settings, env)
  ELSE [text |-> GENERATION_FAILED, calls |-> << >>]

\* Generate, were the second backend invoked whatever the first one did.
GenerateBoth(settings, env) ==
  IF Lower(settings.AI_PROVIDER) = <<"g","e","m","i","n","i">>
  THEN IF env.gemini.raised THEN GeminiFallback(settings, env)
       ELSE [text |-> GeminiText(env.gemini.value),
             calls |-> GeminiFallback(settings, env).calls]
  ELSE IF Lower(settings.AI_PROVIDER) = <<"c","o","h","e","r","e">> /\ settings.cohere
  THEN GenerateCohereOnly(settings, env)
  ELSE [text |-> GENERATION_FAILED, calls |-> << >>]

\* lines 62-101: response_text and the backends invoked, in order.  env gives
\* what each backend does when it is called: env.gemini and env.cohere are
\* Raise(e) or Ret(result).
Generate(settings, env) ==
  IF Lower(settings.AI_PROVIDER) = <<"g","e","m","i","n","i">>
  THEN IF env.gemini.raised THEN GeminiFallback(settings, env)
       ELSE [text |-> GeminiText(env.gemini.value), calls |-> <<"gemini">>]
  ELSE IF Lower(settings.AI_PROVIDER) = <<"c","o","h","e","r","e">> /\ settings.cohere
  THEN GenerateCohereOnly(settings, env)
  ELSE [text |-> GENERATION_FAILED, calls |-> << >>]

\* OrNotSure, were empty text answered with the apology of a raising backend.
OrGenerationFailed(response_text) ==
  IF response_text = << >> THEN GENERATION_FAILED ELSE response_text

\* line 103: return response_text or "I'm not sure how to respond to that."
OrNotSure(response_text) == IF response_text = << >> THEN NOT_SURE ELSE response_text

\* get_response(message, history, neo4j_facts): the outcome (reply returned or
\* exception raised), the collaborators called in order, the text stored in
\* semantic memory and the prompt built.  env.sem_query is Raise(e) or
\* Ret(contents of the matches); env.sem_store_raises says whether the store fails.
get_response(message, history, neo4j_facts, settings, env) ==
  IF message.type # "dict"
  THEN [raised |-> TRUE, value |-> <<"A","t","t","r","i","b","u","t","e","E","r","r","o","r">>, calls |-> << >>,
        stored |-> None, prompt |-> None]
  ELSE IF Strip(message.text) = << >>
  THEN [raised |-> FALSE, value |-> DIDNT_CATCH, calls |-> << >>,
        stored |-> None, prompt |-> None]
  ELSE LET user_text == Strip(message.text)
           matches   == IF env.sem_query.raised THEN << >> ELSE env.sem_query.value
           out       == Generate(settings, env)
       IN [raised |-> FALSE,
           value  |-> OrNotSure(out.text),
           calls  |-> <<"query_semantic_memory", "store_semantic_memory">> \o out.calls,
           stored |-> IF env.sem_store_raises THEN None
                      ELSE Some(<<message.sender, user_text>>),
           prompt |-> Some(BuildPrompt(matches, neo4j_facts, history, user_text))]

\* ------------------------------------------------------------------ state
VARIABLES
  settings,       \* app.config.settings: AI_PROVIDER, COHERE_API_KEY, REDIS_CHAT_HISTORY_KEY,
                  \* and whether "import cohere" succeeded
  users,          \* table users: id -> [name, email]
  tasks,          \* table tasks, rows in insertion order
  pending_tasks,  \* table pending_tasks, rows in insertion (id, created_at) order
  chat_history,   \* table chat_history, rows in insertion (created_at) order
  chats,          \* table chats
  facts,          \* the knowledge graph: facts in the order written
  semantic,       \* the semantic memory: <<user, text>> in the order stored
  redis,          \* the Redis lists: key -> list, head first
  uuids,          \* how many uuid4() values save_chat has drawn
  turns,          \* chat requests handled so far
  last,           \* the last chat request handled: None, or
                  \* Some([request, now, env, calls, response])
  gen,            \* a direct call of get_response: None, or Some([args, out]) with
                  \* out = None until the call has returned
  pushing,        \* per worker thread, the save_chat_redis call it is inside:
                  \* None, or Some([key, mode]) between LPUSH and LTRIM
  pushed,         \* per Redis key, how many LPUSH commands Redis has executed
  cache_step,     \* the last step of a save_chat_redis call: None, or
                  \* Some([key, completed])
  fetched,        \* the last history_text built for a request: None, or
                  \* Some([user_id, chat_id, text])
  nlu,            \* a direct call of get_structured_intent or parse_time_string:
                  \* None, or Some([fn, input, now, out]) with out = None
                  \* until the call has returned
  conn,           \* per worker (a pool thread, or a server process answering greet),
                  \* the store call it runs on its own connection:
                  \* None, or Some([fn, token, text, chat_id, mode, pc, now, found,
                  \* row, out]) with out = None until the call has returned
  clock,          \* the database server's clock, read by CURRENT_TIMESTAMP
  context         \* the context aggregations run so far, oldest first:
                  \* [user_id, utterance, chat_id, bundle]

vars == <<settings, users, tasks, pending_tasks, chat_history, chats, facts,
          semantic, redis, uuids, turns, last, gen, pushing, pushed, cache_step,
          fetched, nlu, conn, clock, context>>

\* The stores as one value, so that a handler is a function from stores to stores.
DB == [users |-> users, tasks |-> tasks, pending_tasks |-> pending_tasks,
       chat_history |-> chat_history, chats |-> chats, facts |-> facts,
       semantic |-> semantic, redis |-> redis, uuids |-> uuids]

\* ----------------------------------------------------------- db/utils.py
\* str(uuid.uuid4()): a fresh identifier, the n-th one drawn
Uuid4(n) == <<"u","u","i","d","-">> \o Dec(n)

\* save_task(task_data)
save_task(db, task_data) ==
  [db EXCEPT !.tasks = Append(@, [id |-> Len(@) + 1,
                                  user_id |-> task_data.user_id,
                                  title |-> task_data.title,
                                  datetime |-> task_data.datetime,
                                  priority |-> task_data.priority,
                                  category |-> task_data.category,
                                  notes |-> task_data.notes,
                                  notified |-> FALSE])]

\* ORDER BY datetime: "YYYY-MM-DD HH:MM:SS" strings compare as their digits do
RECURSIVE StrLess(_, _)
StrLess(a, b) ==
  IF b = << >> THEN FALSE
  ELSE IF a = << >> THEN TRUE
  ELSE LET rank(c) == IF c \in DIGIT THEN DigitVal(c) + 1 ELSE 0
       IN IF rank(Head(a)) # rank(Head(b)) THEN rank(Head(a)) < rank(Head(b))
          ELSE StrLess(Tail(a), Tail(b))
\* NULL sorts last; rows with equal datetime keep their insertion order
DatetimeLess(x, y) ==
  IF IsNone(x) THEN FALSE ELSE IF IsNone(y) THEN TRUE ELSE StrLess(Val(x), Val(y))
RECURSIVE SortByDatetime(_)
SortByDatetime(rows) ==
  IF rows = << >> THEN << >>
  ELSE LET sorted == SortByDatetime(SubSeq(rows, 1, Len(rows) - 1))
           r      == rows[Len(rows)]
           before == {i \in 1..Len(sorted) : ~DatetimeLess(r.datetime, sorted[i].datetime)}
           n      == Cardinality(before)
       IN SubSeq(sorted, 1, n) \o <<r>> \o SubSeq(sorted, n + 1, Len(sorted))

\* get_tasks(user_id)
get_tasks(db, user_id) ==
  SortByDatetime(SelectSeq(db.tasks, LAMBDA r : r.user_id = user_id))

\* save_chat, were the row of chats never inserted.
SaveChatWithoutConversation(db, user_id, user_query, ai_response, chat_id) ==
  LET fresh == ~Truthy(chat_id)
      cid   == IF fresh THEN Uuid4(db.uuids + 1) ELSE Val(chat_id)
  IN [db |-> [db EXCEPT
                !.uuids = IF fresh THEN @ + 1 ELSE @,
                !.chat_history = Append(@, [user_id |-> user_id, chat_id |-> cid,
                                            user_query |-> user_query,
                                            ai_response |-> ai_response,
                                            created_at |-> Len(@) + 1])],
      chat_id |-> cid]

\* save_chat(user_id, user_query, ai_response, chat_id): the stores after it and
\* the chat id it returns.  CURRENT_TIMESTAMP is the position of the new
\* chat_history row, which grows with every call.
save_chat(db, user_id, user_query, ai_response, chat_id) ==
  LET fresh == ~Truthy(chat_id)
      cid   == IF fresh THEN Uuid4(db.uuids + 1) ELSE Val(chat_id)
      stamp == Len(db.chat_history) + 1
      known == \E i \in 1..Len(db.chats) : db.chats[i].id = cid
      rows  == IF known THEN db.chats
               ELSE Append(db.chats, [id |-> cid, user_id |-> user_id,
                                      created_at |-> stamp, last_activity |-> stamp])
  IN [db |-> [db EXCEPT
                !.uuids = IF fresh THEN @ + 1 ELSE @,
                !.chats = [i \in 1..Len(rows) |->
                             IF rows[i].id = cid
                             THEN [rows[i] EXCEPT !.last_activity = stamp]
                             ELSE rows[i]],
                !.chat_history = Append(@, [user_id |-> user_id, chat_id |-> cid,
                                            user_query |-> user_query,
                                            ai_response |-> ai_response,
                                            created_at |-> stamp])],
      chat_id |-> cid]

\* the first limit elements of a sequence (SQL LIMIT)
Limit(rows, limit) == SubSeq(rows, 1, IF Len(rows) < limit THEN Len(rows) ELSE limit)
Reverse(rows) == [i \in 1..Len(rows) |-> rows[Len(rows) + 1 - i]]

\* get_chat_history(user_id, limit): ORDER BY created_at DESC LIMIT limit
get_chat_history(db, user_id, limit) ==
  Limit(Reverse(SelectSeq(db.chat_history, LAMBDA r : r.user_id = user_id)), limit)

\* get_messages_by_chat(user_id, chat_id, limit): ORDER BY created_at ASC LIMIT
\* limit, each row giving the user's message and, if any, the reply
RECURSIVE RowsToMessages(_)
RowsToMessages(rows) ==
  IF rows = << >> THEN << >>
  ELSE <<[type |-> "text", sender |-> "user", content |-> Head(rows).user_query]>>
       \o (IF Head(rows).ai_response # << >>
           THEN <<[type |-> "text", sender |-> "ai", content |-> Head(rows).ai_response]>>
           ELSE << >>)
       \o RowsToMessages(Tail(rows))
get_messages_by_chat(db, user_id, chat_id, limit) ==
  RowsToMessages(Limit(SelectSeq(db.chat_history,
                                 LAMBDA r : r.user_id = user_id /\ r.chat_id = chat_id),
                       limit))

\* A row of pending_tasks: id is the next value of the SERIAL sequence and
\* created_at the CURRENT_TIMESTAMP default, both passed in by the caller.
PendingRow(id, user_id, title, created_at) ==
  [id |-> id, user_id |-> user_id, title |-> title, created_at |-> created_at]

\* the greatest created_at of the rows, 0 for an empty table
RECURSIVE LatestStamp(_)
LatestStamp(rows) ==
  IF rows = << >> THEN 0
  ELSE IF Head(rows).created_at > LatestStamp(Tail(rows)) THEN Head(rows).created_at
  ELSE LatestStamp(Tail(rows))

\* save_pending_task(user_id, title): INSERT INTO pending_tasks, run to its
\* commit with no other transaction in between; the timestamp is later than
\* every stored one.
save_pending_task(db, user_id, title) ==
  [db EXCEPT !.pending_tasks = Append(@, PendingRow(Len(@) + 1, user_id, title,
                                                    LatestStamp(@) + 1))]

\* get_pending_task(user_id): ORDER BY created_at DESC LIMIT 1, None if no row.
\* No two rows of the model carry the same created_at.
get_pending_task(db, user_id) ==
  LET rows == SelectSeq(db.pending_tasks, LAMBDA r : r.user_id = user_id)
  IN IF rows = << >> THEN None
     ELSE Some(CHOOSE r \in {rows[i] : i \in 1..Len(rows)} :
                 \A i \in 1..Len(rows) : rows[i].created_at <= r.created_at)

\* delete_pending_task(pending_id)
delete_pending_task(db, pending_id) ==
  [db EXCEPT !.pending_tasks = SelectSeq(@, LAMBDA r : r.id # pending_id)]

\* update_user_profile(user_id, name, email)
update_user_profile(db, user_id, name, email) ==
  IF ~Truthy(name) /\ ~Truthy(email) THEN db
  ELSE IF user_id \notin DOMAIN db.users THEN db
  ELSE [db EXCEPT !.users[user_id] =
          [name  |-> IF Truthy(name) THEN name ELSE @.name,
           email |-> IF Truthy(email) THEN email ELSE @.email]]

\* ------------------------------------------------------ db/redis_utils.py
\* _user_key(user_id, chat_id)
_user_key(key_prefix, user_id, chat_id) ==
  key_prefix \o <<":">> \o Dec(user_id) \o <<":">>
    \o (IF Truthy(chat_id) THEN Val(chat_id) ELSE <<"d","e","f","a","u","l","t">>)

ListAt(lists, key) == IF key \in DOMAIN lists THEN lists[key] ELSE << >>
SetList(lists, key, list) ==
  [k \in DOMAIN lists \cup {key} |-> IF k = key THEN list ELSE lists[k]]

\* client.lpush(key, value)
LPush(lists, key, value) == SetList(lists, key, <<value>> \o ListAt(lists, key))
\* LTrim, were the tail of the list kept instead of its head.
LTrimKeepsTail(lists, key, stop) ==
  IF key \in DOMAIN lists
  THEN SetList(lists, key, Reverse(Limit(Reverse(lists[key]), stop + 1)))
  ELSE lists

\* client.ltrim(key, 0, stop)
LTrim(lists, key, stop) ==
  IF key \in DOMAIN lists THEN SetList(lists, key, Limit(lists[key], stop + 1)) ELSE lists

\* line 38: client.ltrim(key, 0, 9)
TRIM_STOP == 9

\* save_chat_redis(user_id, user_message, bot_reply, chat_id): the lists after
\* it.  mode says what Redis does during the call: "ok", "down" (no
\* connection: get_redis_client returns None), "lpush_raises", "ltrim_raises".
save_chat_redis(lists, key_prefix, user_id, user_message, bot_reply, chat_id, mode) ==
  LET chat_entry == [chat_id |-> chat_id, user |-> user_message, bot |-> bot_reply]
      key        == _user_key(key_prefix, user_id, chat_id)
  IN IF mode \in {"down", "lpush_raises"} THEN lists
     ELSE IF mode = "ltrim_raises" THEN LPush(lists, key, chat_entry)
     ELSE LTrim(LPush(lists, key, chat_entry), key, TRIM_STOP)

\* get_last_chats(user_id, chat_id, limit)
get_last_chats(lists, key_prefix, user_id, chat_id, limit, mode) ==
  IF mode # "ok" THEN << >>
  ELSE Limit(ListAt(lists, _user_key(key_prefix, user_id, chat_id)), limit)

\* ------------------------------------------------------ db/neo4j_utils.py
\* save_fact_neo4j(key, value) and get_facts_neo4j(user_id): the module is not
\* part of src/; the graph keeps the facts written and returns them.
save_fact_neo4j(db, key, value) ==
  [db EXCEPT !.facts = Append(@, [key |-> key, value |-> value])]
get_facts_neo4j(db, user_id) == db.facts

\* ------------------------------------------------------------ the inputs
\* Verified tokens: the user id (sub) and the name and email claims, if any.
Tokens == {[sub |-> 1, name |-> Some(<<"a","n","n">>), email |-> Some(<<"a","n","n","@","x",".","i","o">>)],
           [sub |-> 2, name |-> None, email |-> None]}

\* The instants at which requests arrive (2026-11-04 21:45:30 IST).
Nows == {Ts(739924, 21, 45, 30)}

\* What a generation call meets: each backend answering, failing or answering blank.
GeminiOutcomes == {Raise("gemini down"),
                   Ret([has_text |-> TRUE, text |-> <<" ","s","u","n","n","y"," ","\n">>]),
                   Ret([has_text |-> TRUE, text |-> <<" ","\n">>]),
                   Ret([has_text |-> TRUE, text |-> << >>]),
                   Ret([has_text |-> FALSE, str |-> <<"<","r","e","s","p","o","n","s","e",">">>])}
CohereOutcomes == {Raise("cohere down"), Ret(<<"c","l","o","u","d","y"," ">>), Ret(<<" "," ">>), Ret(<< >>)}
SemQueryOutcomes == {Raise("pinecone down"), Ret(<<<<"l","i","k","e","s"," ","t","e","a">>, <<"h","a","s"," ","a"," ","d","o","g">>>>)}
GenEnvs == [sem_query : SemQueryOutcomes, sem_store_raises : BOOLEAN,
            gemini : GeminiOutcomes, cohere : CohereOutcomes]
GenEnvOk == [sem_query |-> Ret(<<<<"l","i","k","e","s"," ","t","e","a">>, <<"h","a","s"," ","a"," ","d","o","g">>>>), sem_store_raises |-> FALSE,
             gemini |-> Ret([has_text |-> TRUE, text |-> <<" ","s","u","n","n","y"," ","\n">>]),
             cohere |-> Ret(<<"c","l","o","u","d","y"," ">>)]

\* The messages users send.
U_HELLO == <<"h","e","l","l","o">>
U_WEATHER == <<"w","h","a","t"," ","i","s"," ","t","h","e"," ","w","e","a","t","h","e","r">>
U_REMIND == <<"r","e","m","i","n","d"," ","m","e"," ","t","o"," ","c","a","l","l"," ","m","o","m">>
U_REMIND_AT == <<"R","e","m","i","n","d"," ","m","e"," ","t","o"," ","c","a","l","l"," ","m","o","m"," ","a","t"," ","8","p","m">>
U_ADD_SOON == <<"a","d","d"," ","t","a","s","k"," ","p","a","y"," ","r","e","n","t"," ","d","u","e"," ","s","o","o","n">>
U_MY_NAME == <<"m","y"," ","n","a","m","e"," ","i","s"," ","b","o","b">>
U_FACT == <<"r","e","m","e","m","b","e","r"," ","f","a","c","t"," ","d","o","g"," ","a","s"," ","r","e","x">>
U_SHOW == <<"s","h","o","w"," ","t","a","s","k","s">>
U_PLAY == <<"p","l","a","y"," ","s","h","a","p","e"," ","o","f"," ","y","o","u"," ","o","n"," ","s","p","o","t","i","f","y">>
U_LAST == <<"l","a","s","t"," ","c","h","a","t","s">>
Utterances == {U_HELLO, U_WEATHER, U_REMIND, U_REMIND_AT, U_ADD_SOON, U_MY_NAME,
               U_FACT, U_SHOW, U_PLAY, U_LAST}

\* Spec: every message, from two users, with and without a chat id, with and
\* without a profile name in the request, while every collaborator answers.
Requests == [token : Tokens, user_message : Utterances, chat_id : {None, Some(<<"c","1">>)},
             user_name : {None, Some(<<"b","o","b">>)}, user_email : {None}]
Envs == [hist_raises : {FALSE}, facts_raises : {FALSE}, redis : {"ok"}, gen : {GenEnvOk}]

\* SpecFaults: one user, while the history fetch, the graph fetch and Redis
\* each work or fail.
FaultRequests == [token : {t \in Tokens : t.sub = 1},
                  user_message : {U_WEATHER, U_REMIND, U_REMIND_AT, U_FACT},
                  chat_id : {None, Some(<<"c","1">>)}, user_name : {None}, user_email : {None}]
FaultEnvs == [hist_raises : BOOLEAN, facts_raises : BOOLEAN,
              redis : {"ok", "down", "lpush_raises", "ltrim_raises"}, gen : {GenEnvOk}]

\* SpecGen: the configurations and the arguments get_response is called with.
GenSettings == {[AI_PROVIDER |-> p, COHERE_API_KEY |-> k[1], cohere |-> k[2],
                 REDIS_CHAT_HISTORY_KEY |-> <<"c","h","a","t","_","h","i","s","t","o","r","y">>] :
                  p \in {<<"g","e","m","i","n","i">>, <<"G","e","m","i","n","i">>, <<"c","o","h","e","r","e">>, <<"o","p","e","n","a","i">>},
                  k \in {<<Some(<<"k","e","y">>), TRUE>>, <<None, TRUE>>, <<Some(<<"k","e","y">>), FALSE>>}}
GenMessages == {PyDict(<<"1">>, <<" ","h","i"," ","t","h","e","r","e"," ">>), PyDict(<<"1">>, <<" "," ">>), PyStr(<<"h","i"," ","t","h","e","r","e">>)}
GenArgs == [message : GenMessages, history : {<<"H","u","m","a","n",":"," ","h","i","\n","A","s","s","i","s","t","a","n","t",":"," ","h","e","l","l","o">>},
            neo4j_facts : {<<"d","o","g",":"," ","r","e","x">>}, env : GenEnvs]

\* SpecCache: the worker threads and the (user, chat id) pairs they push for.
Workers == {1, 2}
CacheTargets == {<<1, None>>, <<1, Some(<<"c","1">>)>>, <<2, Some(<<"c","1">>)>>}
CacheModes == {"ok", "down", "lpush_raises", "ltrim_raises"}

\* SpecHistory: conversation "c1" of user 1 after n turns, each saved by
\* save_chat with a non-empty reply, as the n-th turn leaves the tables.
StoredTurns(n) == [i \in 1..n |-> [user_id |-> 1, chat_id |-> <<"c","1">>,
                                    user_query |-> <<"q">> \o Dec(i),
                                    ai_response |-> <<"a">> \o Dec(i), created_at |-> i]]
StoredChats(n) == IF n = 0 THEN << >>
                  ELSE <<[id |-> <<"c","1">>, user_id |-> 1, created_at |-> 1, last_activity |-> n]>>

\* SpecNlu: the instants of the calls: an evening, the last second of a year
\* and the last evening of February in a leap year (2026-11-03, 2026-12-31,
\* 2028-02-28).
NluNows == {Ts(739923, 21, 45, 30), Ts(739981, 23, 59, 59), Ts(740405, 23, 30, 0)}

\* Clock-time phrases: an hour of the 12-hour clock, written with or without
\* a leading zero, optional minutes, a meridiem attached or spaced, and
\* "today", "tomorrow" or no day word, before or after the clock time.
ClockParts == [h : {1, 9, 12}, pad : BOOLEAN, m : {None, Some(0), Some(5), Some(30)},
               sep : {<< >>, <<" ">>}, mer : {<<"a","m">>, <<"p","m">>, <<"P","M">>, <<"a",".","m",".">>},
               day : {<< >>, <<"t","o","d","a","y">>, <<"t","o","m","o","r","r","o","w">>}, day_first : BOOLEAN]
ClockText(c) ==
  (IF c.pad THEN Pad2(c.h) ELSE Dec(c.h))
    \o (IF IsNone(c.m) THEN << >> ELSE <<":">> \o Pad2(Val(c.m))) \o c.sep \o c.mer
ClockPhrase(c) ==
  IF c.day = << >> THEN ClockText(c)
  ELSE IF c.day_first THEN c.day \o <<" ">> \o ClockText(c)
  ELSE ClockText(c) \o <<" ">> \o c.day

\* Relative phrases "in N minute(s)" and "in N hour(s)".
RelParts == [n : {0, 1, 5, 45, 90, 1500, 99999999},
             unit : {<<"m","i","n","u","t","e">>, <<"m","i","n","u","t","e","s">>, <<"h","o","u","r">>, <<"h","o","u","r","s">>}]
RelPhrase(r) == <<"i","n"," ">> \o Dec(r.n) \o <<" ">> \o r.unit

\* Phrases that name no time.
Unresolvable == {<< >>, <<"s","o","o","n">>, <<"w","h","e","n","e","v","e","r">>, <<"l","a","t","e","r">>, <<"n","o","o","n">>, <<"1","3"," ","p","m">>, <<"a","t"," ","5">>}

TimePhrases == {ClockPhrase(c) : c \in ClockParts} \cup {RelPhrase(r) : r \in RelParts}
                 \cup Unresolvable

\* The messages get_structured_intent is called with in SpecNlu.
U_COLOR == <<"r","e","m","e","m","b","e","r"," ","m","y"," ","f","a","v","o","r","i","t","e"," ","c","o","l","o","r"," ","i","s"," ","b","l","u","e">>
U_DOG == <<"R","e","m","e","m","b","e","r"," ","m","y"," ","d","o","g"," ","i","s"," ","r","e","x">>
U_FACT_TASKS == <<"r","e","m","e","m","b","e","r"," ","f","a","c","t"," ","m","y"," ","t","a","s","k","s"," ","a","s"," ","d","o","n","e">>
U_MY_TASKS_IS == <<"m","y"," ","t","a","s","k","s"," ","i","s"," ","l","o","n","g">>
U_REPORT == <<"c","r","e","a","t","e"," ","t","a","s","k"," ","s","u","b","m","i","t"," ","r","e","p","o","r","t"," ","d","u","e"," ","t","o","m","o","r","r","o","w"," ","9","a","m">>
U_REMIND_SHOW == <<"r","e","m","i","n","d"," ","m","e"," ","t","o"," ","s","h","o","w"," ","t","a","s","k","s">>
U_ADD_MILK == <<"p","l","e","a","s","e"," ","a","d","d"," ","a"," ","r","e","m","i","n","d","e","r"," ","t","o"," ","b","u","y"," ","m","i","l","k"," ","a","t"," ","7",":","3","0"," ","p","m">>
U_TASKS_YOUTUBE == <<"l","i","s","t"," ","t","a","s","k","s"," ","o","n"," ","y","o","u","t","u","b","e">>
U_HISTORY_TASKS == <<"s","h","o","w"," ","c","h","a","t"," ","h","i","s","t","o","r","y"," ","o","f"," ","m","y"," ","t","a","s","k","s">>
U_REMIND_FAR == <<"r","e","m","i","n","d"," ","m","e"," ","t","o"," ","s","t","r","e","t","c","h"," ","i","n"," ","9","9","9","9","9","9","9","9"," ","h","o","u","r","s">>
U_DUE_FAR == <<"c","r","e","a","t","e"," ","t","a","s","k"," ","r","e","n","e","w"," ","p","a","s","s","p","o","r","t"," ","d","u","e"," ","i","n"," ","9","9","9","9","9","9","9","9"," ","h","o","u","r","s">>
U_EMPTY == << >>
U_BLANK == <<" "," "," ">>
U_XYZ == <<"x","y","z">>
U_MAPS == <<"o","p","e","n"," ","m","a","p","s">>
U_SAVE_FACT == <<"S","a","v","e"," ","f","a","c","t"," ","w","i","f","i"," ","a","s"," ","h","u","n","t","e","r","2">>
\* Reminders without an " at " part: a title with a time phrase in it, or none,
\* and two titles in which the phrase stands twice, once split around the other.
ReminderPhrases == {<< >>, <<"5","p","m">>, <<"7",":","3","0"," ","a","m">>, <<"t","o","d","a","y">>, <<"t","o","m","o","r","r","o","w">>, <<"i","n"," ","5"," ","m","i","n","u","t","e","s">>,
                    <<"i","n"," ","1"," ","h","o","u","r">>, <<"i","n"," ","2"," ","h","o","u","r","s">>, <<"i","n"," ","4","5"," ","m","i","n","u","t","e">>}
ReminderMessages ==
  {head \o pre \o ph \o post : head \in {<<"r","e","m","i","n","d"," ","m","e"," ","t","o"," ">>, <<"P","l","e","a","s","e"," ","R","e","m","i","n","d"," ","m","e"," ","t","o"," ">>},
                              pre \in {<< >>, <<"c","a","l","l"," ","m","o","m"," ">>}, ph \in ReminderPhrases,
                              post \in {<< >>, <<" ","s","h","a","r","p">>}}
U_REMIND_SPLIT_CLOCK == <<"r","e","m","i","n","d"," ","m","e"," ","t","o"," ","c","a","l","l"," ","1","0","1","0","p","m","p","m">>
U_REMIND_SPLIT_DAY == <<"r","e","m","i","n","d"," ","m","e"," ","t","o"," ","p","l","a","n"," ","t","o","m","t","o","m","o","r","r","o","w","o","r","r","o","w"," ","t","o","m","o","r","r","o","w">>
NluUtterances == Utterances \cup ReminderMessages \cup
  {U_COLOR, U_DOG, U_FACT_TASKS, U_MY_TASKS_IS, U_REPORT, U_REMIND_SHOW, U_ADD_MILK,
   U_TASKS_YOUTUBE, U_HISTORY_TASKS, U_REMIND_FAR, U_DUE_FAR, U_EMPTY, U_BLANK, U_XYZ,
   U_MAPS, U_SAVE_FACT, U_REMIND_SPLIT_CLOCK, U_REMIND_SPLIT_DAY}

\* ---------------------------------------------------------------- main.py
\* An HTTP outcome of the chat endpoint
HTTP200(body) == [status |-> 200, body |-> body]
HTTP500 == [status |-> 500, body |-> [detail |-> "Internal Server Error"]]

\* line 123: re.match(r'^\s*(?:hi|hello|hey|greetings|good morning|good afternoon|good evening)\b', norm)
GREETINGS == <<<<"h","i">>, <<"h","e","l","l","o">>, <<"h","e","y">>, <<"g","r","e","e","t","i","n","g","s">>, <<"g","o","o","d"," ","m","o","r","n","i","n","g">>,
               <<"g","o","o","d"," ","a","f","t","e","r","n","o","o","n">>, <<"g","o","o","d"," ","e","v","e","n","i","n","g">>>>
greeting_match(norm) ==
  LET s == From(norm, 1 + Run(norm, 1, WS))
  IN \E k \in 1..Len(GREETINGS) :
       StartsWith(s, GREETINGS[k]) /\ ~IsWordAt(s, Len(GREETINGS[k]) + 1)

\* lines 128-129
name_queries == <<<<"w","h","a","t"," ","i","s"," ","m","y"," ","n","a","m","e">>, <<"w","h","a","t","'","s"," ","m","y"," ","n","a","m","e">>, <<"w","h","o"," ","a","m"," ","i">>,
                  <<"d","o"," ","y","o","u"," ","k","n","o","w"," ","m","y"," ","n","a","m","e">>, <<"m","y"," ","n","a","m","e">>>>
email_queries == <<<<"w","h","a","t"," ","i","s"," ","m","y"," ","e","m","a","i","l">>, <<"w","h","a","t","'","s"," ","m","y"," ","e","m","a","i","l">>, <<"w","h","a","t"," ","i","s"," ","m","y"," ","e","-","m","a","i","l">>,
                   <<"m","y"," ","e","m","a","i","l">>>>
AnyIn(norm, queries) == \E k \in 1..Len(queries) : Contains(norm, queries[k])

\* line 131: the test that sends a message to the quick greeting / identity reply
IsQuick(user_message) ==
  LET norm == Strip(Lower(user_message))
  IN greeting_match(norm) \/ AnyIn(norm, name_queries \o email_queries)

\* lines 139-144: the quick reply, from the name and email the token carries
QuickReply(norm, token) ==
  IF greeting_match(norm)
  THEN <<"H","e","l","l","o"," ">> \o (IF Truthy(token.name) THEN Val(token.name) ELSE <<"t","h","e","r","e">>)
         \o <<"!"," ","H","o","w"," ","c","a","n"," ","I"," ","a","s","s","i","s","t"," ","y","o","u"," ","t","o","d","a","y","?">>
  ELSE IF AnyIn(norm, name_queries)
  THEN (IF Truthy(token.name) THEN <<"Y","o","u","r"," ","n","a","m","e"," ","i","s"," ">> \o Val(token.name)
        ELSE <<"I"," ","d","o","n","'","t"," ","h","a","v","e"," ","y","o","u","r"," ","n","a","m","e"," ","y","e","t",".">>)
  ELSE (IF Truthy(token.email) THEN <<"Y","o","u","r"," ","e","m","a","i","l"," ","i","s"," ">> \o Val(token.email)
        ELSE <<"I"," ","d","o","n","'","t"," ","h","a","v","e"," ","y","o","u","r"," ","e","m","a","i","l"," ","y","e","t",".">>)

\* QuickPath, were the graph facts fetched and a task noted for the quick reply.
QuickPathFetchesContext(db, cfg, request, structured, env) ==
  [db |-> save_chat(save_pending_task(db, request.token.sub, request.user_message),
                    request.token.sub, request.user_message,
                    QuickReply(Strip(Lower(request.user_message)), request.token),
                    request.chat_id).db,
   calls |-> <<"get_facts_neo4j", "save_pending_task", "save_chat", "save_chat_redis">>,
   response |-> HTTP200([success |-> TRUE,
                         reply |-> QuickReply(Strip(Lower(request.user_message)), request.token),
                         intent |-> structured, chat_id |-> request.chat_id])]

\* lines 146-148: the quick reply is saved and cached under the request's chat_id
QuickPath(db, cfg, request, structured, env) ==
  LET reply == QuickReply(Strip(Lower(request.user_message)), request.token)
      saved == save_chat(db, request.token.sub, request.user_message, reply, request.chat_id)
      lists == save_chat_redis(saved.db.redis, cfg.REDIS_CHAT_HISTORY_KEY, request.token.sub,
                               request.user_message, reply, request.chat_id, env.redis)
  IN [db |-> [saved.db EXCEPT !.redis = lists],
      calls |-> <<"save_chat", "save_chat_redis">>,
      response |-> HTTP200([success |-> TRUE, reply |-> reply, intent |-> structured,
                            chat_id |-> request.chat_id])]

\* PersistTurn, were the turn written only once Redis has taken the entry.
PersistTurnNeedsCache(db, cfg, request, reply, env) ==
  IF env.redis # "ok"
  THEN [db |-> db,
        chat_id |-> IF Truthy(request.chat_id) THEN Val(request.chat_id)
                    ELSE Uuid4(db.uuids + 1)]
  ELSE LET saved == save_chat(db, request.token.sub, request.user_message, reply,
                              request.chat_id)
       IN [db |-> [saved.db EXCEPT !.redis =
                     save_chat_redis(@, cfg.REDIS_CHAT_HISTORY_KEY, request.token.sub,
                                     request.user_message, reply, Some(saved.chat_id),
                                     env.redis)],
           chat_id |-> saved.chat_id]

\* save_chat followed by save_chat_redis under the id save_chat returned
\* (lines 178-179, 188-189, 195-196, 202-203, 211-212)
PersistTurn(db, cfg, request, reply, env) ==
  LET saved == save_chat(db, request.token.sub, request.user_message, reply, request.chat_id)
      lists == save_chat_redis(saved.db.redis, cfg.REDIS_CHAT_HISTORY_KEY, request.token.sub,
                               request.user_message, reply, Some(saved.chat_id), env.redis)
  IN [db |-> [saved.db EXCEPT !.redis = lists], chat_id |-> saved.chat_id]

\* lines 155-161: history_text
HistoryText(db, user_id, chat_id) ==
  IF Truthy(chat_id)
  THEN LET msgs == get_messages_by_chat(db, user_id, Val(chat_id), 50)
       IN Join([i \in 1..Len(msgs) |->
                  (IF msgs[i].sender = "user" THEN <<"H","u","m","a","n">> ELSE <<"A","s","s","i","s","t","a","n","t">>)
                    \o <<":"," ">> \o msgs[i].content])
  ELSE LET extra_chats == get_chat_history(db, user_id, 10)
       IN Join([i \in 1..Len(extra_chats) |->
                  <<"H","u","m","a","n",":"," ">> \o extra_chats[i].user_query
                    \o <<"\n","A","s","s","i","s","t","a","n","t",":"," ">> \o extra_chats[i].ai_response])

\* lines 163-168: facts_text, empty when the graph fetch fails
FactsText(db, user_id, env) ==
  IF env.facts_raises THEN << >>
  ELSE LET facts_list == get_facts_neo4j(db, user_id)
       IN Join([i \in 1..Len(facts_list) |->
                  facts_list[i].key \o <<":"," ">> \o facts_list[i].value])

\* lines 171-180: action == "general_chat"
GeneralChatPath(db, cfg, request, structured, env) ==
  LET got == get_response(PyStr(request.user_message),
                          HistoryText(db, request.token.sub, request.chat_id),
                          FactsText(db, request.token.sub, env), cfg, env.gen)
      db1 == IF IsNone(got.stored) THEN db
             ELSE [db EXCEPT !.semantic = Append(@, Val(got.stored))]
      p   == PersistTurn(db1, cfg, request, got.value, env)
  IN IF got.raised
     THEN [db |-> db1, calls |-> <<"get_response">> \o got.calls, response |-> HTTP500]
     ELSE [db |-> p.db,
           calls |-> <<"get_response">> \o got.calls \o <<"save_chat", "save_chat_redis">>,
           response |-> HTTP200([success |-> TRUE, reply |-> got.value,
                                 intent |-> structured, chat_id |-> Some(p.chat_id)])]

\* CreateTaskPath, were the due time never looked at: the user is always asked.
CreateTaskPathAlwaysAsks(db, cfg, request, structured, env) ==
  LET task_data == structured.data
      follow_up == <<"W","h","e","n"," ","s","h","o","u","l","d"," ","I"," ","r","e","m","i","n","d"," ","y","o","u"," ","f","o","r"," ","'">> \o task_data.title \o <<"'","?">>
      asked     == PersistTurn(save_pending_task(db, request.token.sub, task_data.title),
                               cfg, request, follow_up, env)
  IN [db |-> asked.db,
      calls |-> <<"save_pending_task", "save_chat", "save_chat_redis">>,
      response |-> HTTP200([success |-> TRUE, reply |-> follow_up,
                            status |-> "awaiting_time", task |-> task_data,
                            chat_id |-> Some(asked.chat_id)])]

\* lines 182-197: action == "create_task"
CreateTaskPath(db, cfg, request, structured, env) ==
  LET task_data == structured.data
      follow_up == <<"W","h","e","n"," ","s","h","o","u","l","d"," ","I"," ","r","e","m","i","n","d"," ","y","o","u"," ","f","o","r"," ","'">> \o task_data.title \o <<"'","?">>
      asked     == PersistTurn(save_pending_task(db, request.token.sub, task_data.title),
                               cfg, request, follow_up, env)
      confirmation_message ==
        <<"T","a","s","k"," ","s","a","v","e","d",":"," ">> \o task_data.title \o <<" ","d","u","e"," ">> \o Val(task_data.datetime)
      data_with_user ==
        [user_id |-> request.token.sub, title |-> task_data.title,
         datetime |-> task_data.datetime, priority |-> task_data.priority,
         category |-> task_data.category, notes |-> task_data.notes]
      saved     == PersistTurn(save_task(db, data_with_user), cfg, request,
                               confirmation_message, env)
  IN IF ~Truthy(task_data.datetime)
     THEN [db |-> asked.db,
           calls |-> <<"save_pending_task", "save_chat", "save_chat_redis">>,
           response |-> HTTP200([success |-> TRUE, reply |-> follow_up,
                                 status |-> "awaiting_time", task |-> task_data,
                                 chat_id |-> Some(asked.chat_id)])]
     ELSE [db |-> saved.db,
           calls |-> <<"save_task", "save_chat", "save_chat_redis">>,
           response |-> HTTP200([success |-> TRUE, reply |-> confirmation_message,
                                 status |-> "Task saved", task |-> task_data,
                                 chat_id |-> Some(saved.chat_id)])]

\* lines 199-204: action == "fetch_tasks"
FetchTasksPath(db, cfg, request, structured, env) ==
  LET rows  == get_tasks(db, request.token.sub)
      reply == <<"Y","o","u"," ","h","a","v","e"," ">> \o Dec(Len(rows)) \o <<" ","t","a","s","k","s",".">>
      p     == PersistTurn(db, cfg, request, reply, env)
  IN [db |-> p.db,
      calls |-> <<"get_tasks", "save_chat", "save_chat_redis">>,
      response |-> HTTP200([success |-> TRUE, reply |-> reply, tasks |-> rows,
                            intent |-> structured])]

\* lines 206-213: action == "save_fact"
SaveFactPath(db, cfg, request, structured, env) ==
  LET key   == structured.data.key
      value == structured.data.value
      reply == <<"I"," ","h","a","v","e"," ","s","a","v","e","d"," ","t","h","e"," ","f","a","c","t"," ","'">> \o key \o <<":"," ">> \o value
                 \o <<"'"," ","i","n"," ","y","o","u","r"," ","k","n","o","w","l","e","d","g","e"," ","b","a","s","e",".">>
      p     == PersistTurn(save_fact_neo4j(db, key, value), cfg, request, reply, env)
  IN [db |-> p.db,
      calls |-> <<"save_fact_neo4j", "save_chat", "save_chat_redis">>,
      response |-> HTTP200([success |-> TRUE, reply |-> reply, intent |-> structured])]

\* UnknownPath, were the unhandled intent noted in the knowledge graph.
UnknownPathWritesFact(db, structured) ==
  [db |-> save_fact_neo4j(db, <<"i","n","t","e","n","t">>, <<"u","n","k","n","o","w","n">>), calls |-> <<"save_fact_neo4j">>,
   response |-> HTTP200([success |-> FALSE, reply |-> <<"U","n","k","n","o","w","n"," ","a","c","t","i","o","n">>,
                         intent |-> structured])]

\* lines 215-216
UnknownPath(db, structured) ==
  [db |-> db, calls |-> << >>,
   response |-> HTTP200([success |-> FALSE, reply |-> <<"U","n","k","n","o","w","n"," ","a","c","t","i","o","n">>,
                         intent |-> structured])]

\* lines 170-216: the dispatch on the action
Dispatch(db, cfg, request, structured, env) ==
  IF structured.action = "general_chat" THEN GeneralChatPath(db, cfg, request, structured, env)
  ELSE IF structured.action = "create_task" THEN CreateTaskPath(db, cfg, request, structured, env)
  ELSE IF structured.action = "fetch_tasks" THEN FetchTasksPath(db, cfg, request, structured, env)
  ELSE IF structured.action = "save_fact" THEN SaveFactPath(db, cfg, request, structured, env)
  ELSE UnknownPath(db, structured)

\* lines 150-168: the profile update and the two fetches made before dispatch.
\* A failing history fetch is not caught here: it ends the request.
BeforeDispatch(db, cfg, request, structured, env) ==
  LET profile == Truthy(request.user_name) \/ Truthy(request.user_email)
      db1     == IF profile
                 THEN update_user_profile(db, request.token.sub, request.user_name,
                                          request.user_email)
                 ELSE db
      pre     == (IF profile THEN <<"update_user_profile">> ELSE << >>)
                   \o <<IF Truthy(request.chat_id) THEN "get_messages_by_chat"
                        ELSE "get_chat_history">>
      d       == Dispatch(db1, cfg, request, structured, env)
  IN IF env.hist_raises
     THEN [db |-> db1, calls |-> pre, response |-> HTTP500]
     ELSE [d EXCEPT !.calls = pre \o <<"get_facts_neo4j">> \o @]

\* get_structured_intent and the quick-reply test of every message the model
\* sends, evaluated once per message instead of once per request
INTENT_OF == [m \in Utterances, n \in Nows |-> get_structured_intent(m, n)]
QUICK_OF == [m \in Utterances |-> IsQuick(m)]
StructuredIntent(user_message, now) == INTENT_OF[user_message, now]
Quick(user_message) == QUICK_OF[user_message]

\* lines 118-220 once the message is classified: cls is Ret(intent) or the
\* exception get_structured_intent raised, which the handler turns into a 500
Handle(db, cfg, request, cls, env) ==
  IF cls.raised THEN [db |-> db, calls |-> << >>, response |-> HTTP500]
  ELSE IF Quick(request.user_message)
  THEN QuickPath(db, cfg, request, cls.value, env)
  ELSE BeforeDispatch(db, cfg, request, cls.value, env)

\* chat(request) with a valid token, at the instant now: the stores after it,
\* the collaborators it called and the HTTP outcome.  env says what the
\* collaborators do during the request.
chat(db, cfg, request, now, env) ==
  Handle(db, cfg, request, StructuredIntent(request.user_message, now), env)

\* ------------------------------------------------------------- behaviour
InitSettings == [AI_PROVIDER |-> <<"g","e","m","i","n","i">>, COHERE_API_KEY |-> Some(<<"k","e","y">>),
                 cohere |-> TRUE, REDIS_CHAT_HISTORY_KEY |-> <<"c","h","a","t","_","h","i","s","t","o","r","y">>]

InitStores ==
  /\ users = [u \in {1, 2} |-> IF u = 1 THEN [name |-> Some(<<"a","n","n">>), email |-> Some(<<"a","n","n","@","x",".","i","o">>)]
                              ELSE [name |-> None, email |-> Some(<<"b","o","@","x",".","i","o">>)]]
  /\ tasks = << >>
  /\ pending_tasks = << >>
  /\ chat_history = << >>
  /\ chats = << >>
  /\ facts = << >>
  /\ semantic = << >>
  /\ redis = << >>
  /\ uuids = 0
  /\ turns = 0
  /\ last = None
  /\ pushing = [w \in Workers |-> None]
  /\ pushed = << >>
  /\ cache_step = None
  /\ fetched = None
  /\ conn = [w \in Workers |-> None]
  /\ clock = 0
  /\ context = << >>

Init == settings = InitSettings /\ gen = None /\ nlu = None /\ InitStores

\* One request to POST /chat/ handled from start to end.
ChatTurn(request, now, env) ==
  \E r \in {chat(DB, settings, request, now, env)} :
     /\ users' = r.db.users
     /\ tasks' = r.db.tasks
     /\ pending_tasks' = r.db.pending_tasks
     /\ chat_history' = r.db.chat_history
     /\ chats' = r.db.chats
     /\ facts' = r.db.facts
     /\ semantic' = r.db.semantic
     /\ redis' = r.db.redis
     /\ uuids' = r.db.uuids
     /\ turns' = turns + 1
     /\ last' = Some([request |-> request, now |-> now, env |-> env,
                      calls |-> r.calls, response |-> r.response])
     /\ UNCHANGED <<settings, gen, pushing, pushed, cache_step, fetched, nlu, conn, clock, context>>

Next ==
  /\ turns < MaxTurns
  /\ \E request \in Requests, now \in Nows, env \in Envs : ChatTurn(request, now, env)

Spec == Init /\ [][Next]_vars

NextFaults ==
  /\ turns < MaxFaultTurns
  /\ \E request \in FaultRequests, now \in Nows, env \in FaultEnvs :
       ChatTurn(request, now, env)

SpecFaults == Init /\ [][NextFaults]_vars

\* A direct call of get_response with arguments of either shape, under every
\* configuration: the arguments are drawn first, then the call returns.
InitGen == /\ settings \in GenSettings
           /\ gen \in {Some([args |-> a, out |-> None]) : a \in GenArgs}
           /\ nlu = None
           /\ InitStores

GetResponseCall ==
  /\ gen # None /\ Val(gen).out = None
  /\ LET a == Val(gen).args
         r == get_response(a.message, a.history, a.neo4j_facts, settings, a.env)
     IN /\ gen' = Some([args |-> a, out |-> Some(r)])
        /\ semantic' = IF IsNone(r.stored) THEN semantic ELSE Append(semantic, Val(r.stored))
  /\ UNCHANGED <<settings, users, tasks, pending_tasks, chat_history, chats, facts, redis,
                 uuids, turns, last, pushing, pushed, cache_step, fetched, nlu, conn, clock, context>>

NextGen == GetResponseCall

SpecGen == InitGen /\ [][NextGen]_vars

\* save_chat_redis run by the worker threads, LPUSH and LTRIM being separate
\* Redis commands: PushStart is the call up to and including LPUSH, PushTrim
\* the LTRIM that ends it.  The n-th entry pushed to a key carries n as its text.
RECURSIVE SumOf(_, _)
SumOf(f, S) == IF S = {} THEN 0 ELSE LET k == CHOOSE k \in S : TRUE IN f[k] + SumOf(f, S \ {k})

PushStart(w, user_id, chat_id, mode) ==
  LET key   == _user_key(settings.REDIS_CHAT_HISTORY_KEY, user_id, chat_id)
      n     == (IF key \in DOMAIN pushed THEN pushed[key] ELSE 0) + 1
      entry == [chat_id |-> chat_id, user |-> Dec(n), bot |-> <<"o","k">>]
  IN /\ SumOf(pushed, DOMAIN pushed) < MaxPush
     /\ pushing[w] = None
     /\ IF mode \in {"down", "lpush_raises"}
        THEN /\ cache_step' = Some([key |-> key, completed |-> FALSE])
             /\ UNCHANGED <<redis, pushed, pushing>>
        ELSE /\ redis' = LPush(redis, key, entry)
             /\ pushed' = SetList(pushed, key, n)
             /\ pushing' = [pushing EXCEPT ![w] = Some([key |-> key, mode |-> mode])]
             /\ cache_step' = Some([key |-> key, completed |-> FALSE])
     /\ UNCHANGED <<settings, users, tasks, pending_tasks, chat_history, chats, facts,
                    semantic, uuids, turns, last, gen, fetched, nlu, conn, clock, context>>

PushTrim(w) ==
  /\ pushing[w] # None
  /\ LET p == Val(pushing[w])
     IN /\ redis' = IF p.mode = "ok" THEN LTrim(redis, p.key, TRIM_STOP) ELSE redis
        /\ cache_step' = Some([key |-> p.key, completed |-> p.mode = "ok"])
  /\ pushing' = [pushing EXCEPT ![w] = None]
  /\ UNCHANGED <<settings, users, tasks, pending_tasks, chat_history, chats, facts,
                 semantic, uuids, turns, last, gen, pushed, fetched, nlu, conn, clock, context>>

NextCache ==
  \/ \E w \in Workers, t \in CacheTargets, mode \in CacheModes : PushStart(w, t[1], t[2], mode)
  \/ \E w \in Workers : PushTrim(w)

SpecCache == Init /\ [][NextCache]_vars

\* The history_text of a request (lines 155-161) built from a conversation
\* that already holds up to MaxStored turns.
InitHistory ==
  /\ settings = InitSettings /\ gen = None /\ nlu = None
  /\ users = [u \in {1, 2} |-> IF u = 1 THEN [name |-> Some(<<"a","n","n">>), email |-> Some(<<"a","n","n","@","x",".","i","o">>)]
                              ELSE [name |-> None, email |-> Some(<<"b","o","@","x",".","i","o">>)]]
  /\ \E n \in 0..MaxStored : chat_history = StoredTurns(n) /\ chats = StoredChats(n)
  /\ tasks = << >> /\ pending_tasks = << >> /\ facts = << >> /\ semantic = << >>
  /\ redis = << >> /\ uuids = 0 /\ turns = 0 /\ last = None
  /\ pushing = [w \in Workers |-> None] /\ pushed = << >> /\ cache_step = None
  /\ fetched = None /\ conn = [w \in Workers |-> None] /\ clock = 0
  /\ context = << >>

BuildHistory(user_id, chat_id) ==
  /\ fetched = None
  /\ fetched' = Some([user_id |-> user_id, chat_id |-> chat_id,
                      text |-> HistoryText(DB, user_id, chat_id)])
  /\ UNCHANGED <<settings, users, tasks, pending_tasks, chat_history, chats, facts,
                 semantic, redis, uuids, turns, last, gen, pushing, pushed, cache_step, nlu,
                 conn, clock, context>>

NextHistory == \E user_id \in {1, 2}, chat_id \in {None, Some(<<"c","1">>)} : BuildHistory(user_id, chat_id)

SpecHistory == InitHistory /\ [][NextHistory]_vars

\* A direct call of parse_time_string or of get_structured_intent: the
\* argument and the instant are drawn first, then the call returns.
InitNlu ==
  /\ settings = InitSettings /\ gen = None /\ InitStores
  /\ nlu \in {Some([fn |-> "parse_time_string", input |-> p, now |-> n, out |-> None]) :
                 p \in TimePhrases, n \in NluNows}
             \cup {Some([fn |-> "get_structured_intent", input |-> u, now |-> n, out |-> None]) :
                     u \in NluUtterances, n \in NluNows}

ParseTimeCall ==
  /\ nlu # None /\ Val(nlu).fn = "parse_time_string" /\ Val(nlu).out = None
  /\ nlu' = Some([Val(nlu) EXCEPT !.out = Some(parse_time_string(Val(nlu).input, Val(nlu).now))])
  /\ UNCHANGED <<settings, users, tasks, pending_tasks, chat_history, chats, facts,
                 semantic, redis, uuids, turns, last, gen, pushing, pushed, cache_step,
                 fetched, conn, clock, context>>

ClassifyCall ==
  /\ nlu # None /\ Val(nlu).fn = "get_structured_intent" /\ Val(nlu).out = None
  /\ nlu' = Some([Val(nlu) EXCEPT
                    !.out = Some(get_structured_intent(Val(nlu).input, Val(nlu).now))])
  /\ UNCHANGED <<settings, users, tasks, pending_tasks, chat_history, chats, facts,
                 semantic, redis, uuids, turns, last, gen, pushing, pushed, cache_step,
                 fetched, conn, clock, context>>

NextNlu == ParseTimeCall \/ ClassifyCall

SpecNlu == InitNlu /\ [][NextNlu]_vars

\* ------------------------------------------------- reading the last request
LastRequest == Val(last).request
LastEnv == Val(last).env
LastCalls == Val(last).calls
LastResponse == Val(last).response
LastUser == LastRequest.token.sub
LastIntent == StructuredIntent(LastRequest.user_message, Val(last).now)
Called(name) == \E i \in 1..Len(LastCalls) : LastCalls[i] = name

\* The last request was classified as `action` and was not answered by the
\* greeting / identity short-circuit.
Classified(action) ==
  /\ last # None
  /\ ~LastIntent.raised
  /\ LastIntent.value.action = action
  /\ ~Quick(LastRequest.user_message)
\* ... and its history fetch did not end the request before the dispatch.
Dispatched(action) == Classified(action) /\ ~LastEnv.hist_raises

PendingOf(rows, u) == SelectSeq(rows, LAMBDA r : r.user_id = u)
TasksOf(rows, u) == SelectSeq(rows, LAMBDA r : r.user_id = u)

\* This step appended exactly one turn to chat_history: the last request's
\* message with the reply the response carries.
OneTurnAppended ==
  /\ Len(chat_history') = Len(chat_history) + 1
  /\ SubSeq(chat_history', 1, Len(chat_history)) = chat_history
  /\ LET row == chat_history'[Len(chat_history')]
     IN /\ row.user_id = LastUser'
        /\ row.user_query = LastRequest'.user_message
        /\ row.ai_response = LastResponse'.body.reply

\* ------------------------------------------------------ pending-task slot
\* C1: after any sequence of chat turns, by any mix of users and messages,
\* the pending_tasks table holds at most one row per user.
C1_AtMostOnePendingPerUser ==
  \A u \in DOMAIN users : Len(PendingOf(pending_tasks, u)) <= 1

\* C2: when a user has a pending task and their next message is classified
\* create_task with a resolved due time, the task is created and no pending
\* task remains for that user after the turn; when the due time is still
\* unresolved, a pending task remains and the user is asked again.
C2_ResolvedTimeClearsPending ==
  [][(Dispatched("create_task")' /\ PendingOf(pending_tasks, LastUser') # << >>) =>
       IF Truthy(LastIntent'.value.data.datetime)
       THEN /\ Len(TasksOf(tasks', LastUser')) = Len(TasksOf(tasks, LastUser')) + 1
            /\ PendingOf(pending_tasks', LastUser') = << >>
       ELSE /\ PendingOf(pending_tasks', LastUser') # << >>
            /\ LastResponse'.status = 200
            /\ LastResponse'.body.status = "awaiting_time"]_vars

\* ------------------------------------------------- the generation backends
GenDone == gen # None /\ Val(gen).out # None
GenIn == Val(gen).args
GenOut == Val(Val(gen).out)

\* The call got as far as the backends: its message is a dict whose text is
\* not blank.
BackendsReached ==
  GenDone /\ GenIn.message.type = "dict" /\ Strip(GenIn.message.text) # << >>

\* The backends the configuration puts in the chain, in order.
Chain ==
  IF Lower(settings.AI_PROVIDER) = <<"g","e","m","i","n","i">>
  THEN IF settings.cohere /\ Truthy(settings.COHERE_API_KEY)
       THEN <<"gemini", "cohere">> ELSE <<"gemini">>
  ELSE IF Lower(settings.AI_PROVIDER) = <<"c","o","h","e","r","e">> /\ settings.cohere
  THEN <<"cohere">> ELSE << >>

\* What a backend does when it is invoked under env.
Raises(backend, env) == IF backend = "gemini" THEN env.gemini.raised ELSE env.cohere.raised
TextOf(backend, env) ==
  IF backend = "gemini" THEN GeminiText(env.gemini.value) ELSE CohereText(env.cohere.value)
Blank(backend, env) == ~Raises(backend, env) /\ TextOf(backend, env) = << >>
Succeeds(backend, env) == ~Raises(backend, env) /\ TextOf(backend, env) # << >>
AllFail(env) == \A i \in 1..Len(Chain) : ~Succeeds(Chain[i], env)

\* The backends a call invoked, in the order it invoked them.
BackendCalls(calls) == SelectSeq(calls, LAMBDA c : c \in {"gemini", "cohere"})

C4_FirstSuccessEndsChain ==
  BackendsReached =>
    /\ \E n \in 0..Len(Chain) : BackendCalls(GenOut.calls) = SubSeq(Chain, 1, n)
    /\ (Len(Chain) >= 1 /\ Succeeds(Chain[1], GenIn.env)) =>
         /\ BackendCalls(GenOut.calls) = <<Chain[1]>>
         /\ ~GenOut.raised /\ GenOut.value = TextOf(Chain[1], GenIn.env)
    /\ (Len(Chain) = 2 /\ Raises(Chain[1], GenIn.env) /\ Succeeds(Chain[2], GenIn.env)) =>
         /\ BackendCalls(GenOut.calls) = Chain
         /\ ~GenOut.raised /\ GenOut.value = TextOf(Chain[2], GenIn.env)

\* C4: a call returned whose first backend of two succeeded while the second
\* would have answered something else.
C4_Witness ==
  /\ BackendsReached /\ Len(Chain) = 2
  /\ Succeeds(Chain[1], GenIn.env) /\ Succeeds(Chain[2], GenIn.env)
  /\ TextOf(Chain[1], GenIn.env) # TextOf(Chain[2], GenIn.env)

\* The apology a call gives when every backend fails: the last backend it
\* invoked returned blank text, or it raised (or there was none to invoke).
LastInvokedBlank(env) ==
  /\ Len(Chain) >= 1
  /\ \/ Blank(Chain[1], env)
     \/ Len(Chain) = 2 /\ Raises(Chain[1], env) /\ Blank(Chain[2], env)

C6_GeneralChatPersistsOneTurn ==
  [][Dispatched("general_chat")' =>
       /\ Called("get_facts_neo4j")' /\ Called("get_response")'
       /\ LastResponse'.status = 200
       /\ LastResponse'.body.success
       /\ OneTurnAppended]_vars

\* The context fetches of the chat endpoint that fail during the last request.
FailedFetches ==
  (IF LastEnv.hist_raises THEN {"history"} ELSE {})
    \cup (IF LastEnv.facts_raises THEN {"facts"} ELSE {})
    \cup (IF LastEnv.gen.sem_query.raised THEN {"semantic"} ELSE {})

\* C7: when one of the context fetches of a request fails, the other fetches
\* of the endpoint are still made and the request is answered with a reply,
\* not with an error.
C7_OneFetchFailureTolerated ==
  (last # None /\ ~LastIntent.raised /\ ~Quick(LastRequest.user_message)
     /\ LastIntent.value.action # "general_chat" /\ Cardinality(FailedFetches) = 1) =>
    /\ Called("get_chat_history") \/ Called("get_messages_by_chat")
    /\ Called("get_facts_neo4j")
    /\ LastResponse.status = 200

\* C8: for every message classified create_task that reaches the dispatch:
\* when the due time is unresolved, one pending task with the title is
\* written for the user, no task is created and the clarifying question is
\* appended as a turn; when the due time is resolved, exactly one task with
\* that title and due time is created for the user, the confirmation is
\* appended as a turn and no pending task is written.
C8_CreateTaskDispatch ==
  [][Dispatched("create_task")' =>
       LET data == LastIntent'.value.data
           reply == LastResponse'.body.reply
       IN /\ LastResponse'.status = 200 /\ LastResponse'.body.success
          /\ OneTurnAppended
          /\ IF ~Truthy(data.datetime)
             THEN /\ Len(pending_tasks') = Len(pending_tasks) + 1
                  /\ SubSeq(pending_tasks', 1, Len(pending_tasks)) = pending_tasks
                  /\ pending_tasks'[Len(pending_tasks')].user_id = LastUser'
                  /\ pending_tasks'[Len(pending_tasks')].title = data.title
                  /\ tasks' = tasks
                  /\ reply = <<"W","h","e","n"," ","s","h","o","u","l","d"," ","I"," ","r","e","m","i","n","d"," ","y","o","u"," ","f","o","r"," ","'">> \o data.title \o <<"'","?">>
             ELSE /\ Len(tasks') = Len(tasks) + 1
                  /\ SubSeq(tasks', 1, Len(tasks)) = tasks
                  /\ tasks'[Len(tasks')].user_id = LastUser'
                  /\ tasks'[Len(tasks')].title = data.title
                  /\ tasks'[Len(tasks')].datetime = data.datetime
                  /\ pending_tasks' = pending_tasks
                  /\ reply = <<"T","a","s","k"," ","s","a","v","e","d",":"," ">> \o data.title \o <<" ","d","u","e"," ">> \o Val(data.datetime)]_vars

\* C8: a create_task message with a resolved due time was dispatched for a
\* user whose earlier create_task message had no due time.
C8_Witness ==
  /\ Dispatched("create_task")
  /\ Truthy(LastIntent.value.data.datetime)
  /\ TasksOf(tasks, LastUser) # << >>
  /\ PendingOf(pending_tasks, LastUser) # << >>
  /\ LastEnv.facts_raises

\* C9: every message the classifier maps to save_fact, "my name is V" and
\* "my email is V" included, has its key and value written to the knowledge
\* graph and a confirmation appended as a turn.
C9_SaveFactWritten ==
  [][(last' # None /\ ~LastIntent'.raised /\ LastIntent'.value.action = "save_fact") =>
       /\ Called("save_fact_neo4j")'
       /\ facts' = Append(facts, [key |-> LastIntent'.value.data.key,
                                  value |-> LastIntent'.value.data.value])
       /\ LastResponse'.status = 200
       /\ OneTurnAppended]_vars

\* ------------------------------------------------------ the recent-history cache
\* The texts of the newest min(n, limit) of n entries pushed to a key, newest first.
Newest(n, limit) == [i \in 1..(IF n < limit THEN n ELSE limit) |-> Dec(n + 1 - i)]

\* C10: after every completed push the list of the key pushed to holds at
\* most 10 entries, and they are the newest min(n, 10) of the n entries
\* pushed to that key, newest first; no step of a push changes the list of
\* another key.
C10_CacheHoldsNewestTen ==
  [][cache_step' # None =>
       LET key == Val(cache_step').key
           list == ListAt(redis', key)
       IN /\ Val(cache_step').completed =>
               /\ Len(list) <= 10
               /\ [i \in 1..Len(list) |-> list[i].user] = Newest(pushed'[key], 10)
          /\ \A k \in (DOMAIN redis \cup DOMAIN redis') \ {key} :
               ListAt(redis', k) = ListAt(redis, k)]_vars

\* C10: a push completed on a key that has had more than 10 entries pushed,
\* while another key holds entries of its own.
C10_Witness ==
  /\ cache_step # None /\ Val(cache_step).completed
  /\ pushed[Val(cache_step).key] > 10
  /\ \E k \in DOMAIN redis : k # Val(cache_step).key /\ redis[k] # << >>

\* ------------------------------------------------- cache failures and the turn
\* C11: when Redis is unreachable or a Redis command of the push fails during
\* a request, the request ends as it would have with Redis answering: the
\* same response and the same durable stores; and every request that got as
\* far as the cache push is answered with a success reply and has appended
\* exactly one turn to chat_history.
C11_CacheFailureKeepsTurn ==
  [][(last' # None /\ LastEnv'.redis # "ok") =>
       \E ok \in {chat(DB, settings, LastRequest', Val(last').now,
                       [LastEnv' EXCEPT !.redis = "ok"])} :
          /\ LastResponse' = ok.response
          /\ <<users', tasks', pending_tasks', chat_history', chats', facts', semantic'>>
               = <<ok.db.users, ok.db.tasks, ok.db.pending_tasks, ok.db.chat_history,
                   ok.db.chats, ok.db.facts, ok.db.semantic>>
          /\ Called("save_chat_redis")' =>
               /\ LastResponse'.status = 200
               /\ LastResponse'.body.success
               /\ OneTurnAppended]_vars

\* C11: a request whose LPUSH raised was answered with a success reply; its
\* turn is in chat_history and Redis holds no entry.
C11_Witness ==
  /\ last # None
  /\ LastEnv.redis = "lpush_raises"
  /\ Called("save_chat_redis")
  /\ LastResponse.status = 200 /\ LastResponse.body.success
  /\ chat_history # << >>
  /\ redis = << >>

\* ------------------------------------------------------ the history of a chat
\* Every message of a conversation, oldest first: the user's message of each
\* turn followed by the reply.
ConversationMessages(rows, user_id, chat_id) ==
  RowsToMessages(SelectSeq(rows, LAMBDA r : r.user_id = user_id /\ r.chat_id = chat_id))
LastN(seq, n) == SubSeq(seq, Len(seq) - n + 1, Len(seq))
\* One line per message, "Human: ..." for the user and "Assistant: ..." for the reply.
SpeakerLines(msgs) ==
  Join([i \in 1..Len(msgs) |->
          (IF msgs[i].sender = "user" THEN <<"H","u","m","a","n",":"," ">> ELSE <<"A","s","s","i","s","t","a","n","t",":"," ">>) \o msgs[i].content])

\* C12: when the request carries a chat_id and the conversation holds more
\* than 50 messages, history_text is the most recent 50 messages of the
\* conversation, oldest of them first, one speaker line per message.
C12_HistoryIsMostRecentFifty ==
  (fetched # None /\ Truthy(Val(fetched).chat_id)) =>
    LET all == ConversationMessages(chat_history, Val(fetched).user_id,
                                    Val(Val(fetched).chat_id))
    IN Len(all) > 50 => Val(fetched).text = SpeakerLines(LastN(all, 50))

\* ------------------------------------------------------- unhandled intents
\* The last request was classified get_chat_history or open_external, the two
\* intents the dispatch has no branch for.
Unhandled == Classified("get_chat_history") \/ Classified("open_external")
UnknownReply ==
  /\ LastResponse.status = 200
  /\ ~LastResponse.body.success
  /\ LastResponse.body.reply = <<"U","n","k","n","o","w","n"," ","a","c","t","i","o","n">>

QuickAnswered == last # None /\ ~LastIntent.raised /\ Quick(LastRequest.user_message)

\* C14: a request whose message matches the greeting or identity patterns is
\* answered by the short-circuit: the only collaborators called are save_chat
\* and save_chat_redis (no generation backend, no history, graph or semantic
\* fetch), no task, pending task or fact is written, and exactly one turn is
\* appended to chat_history.
C14_QuickReplyBypassesGeneration ==
  [][QuickAnswered' =>
       /\ LastCalls' = <<"save_chat", "save_chat_redis">>
       /\ UNCHANGED <<tasks, pending_tasks, facts, semantic>>
       /\ LastResponse'.status = 200
       /\ LastResponse'.body.success
       /\ LastResponse'.body.reply =
            QuickReply(Strip(Lower(LastRequest'.user_message)), LastRequest'.token)
       /\ OneTurnAppended]_vars

\* C14: "hello" from the user whose token names them was answered with the
\* greeting, and the turn is the newest row of chat_history.
C14_Witness ==
  /\ QuickAnswered
  /\ LastRequest.user_message = U_HELLO
  /\ LastResponse.body.reply = <<"H","e","l","l","o"," ","a","n","n","!"," ","H","o","w"," ","c","a","n"," ","I"," ","a","s","s","i","s","t"," ","y","o","u"," ","t","o","d","a","y","?">>
  /\ chat_history # << >>
  /\ chat_history[Len(chat_history)].ai_response = LastResponse.body.reply
  /\ facts = << >> /\ tasks = << >>

\* ------------------------------------------- reading a direct call of nlu.py
Returned(fn) == nlu # None /\ Val(nlu).fn = fn /\ Val(nlu).out # None
NluIn == Val(nlu).input
NluNow == Val(nlu).now
NluOut == Val(Val(nlu).out)

\* The message as the rules see it (lines 71-72).
Normalised(user_message) == StripCourtesy(Strip(Lower(user_message)))

\* The rules of the classifier in the order the specification numbers them:
\* 1 the fact-save forms, 2 "create|add task T due D", 3 "remind me to T",
\* 4 the generic add/create form, 5 the keyword lists, 6 an external app
\* named in the message, 7 the fallback.
RuleMatches(k, msg) ==
  CASE k = 1 -> \/ /\ AfterHead(msg, <<<<"s","a","v","e"," ","f","a","c","t"," ">>, <<"r","e","m","e","m","b","e","r"," ","f","a","c","t"," ">>>>) # 0
                   /\ ~IsNone(LazySplit(msg, AfterHead(msg, <<<<"s","a","v","e"," ","f","a","c","t"," ">>, <<"r","e","m","e","m","b","e","r"," ","f","a","c","t"," ">>>>),
                                        <<" ","a","s"," ">>))
                \/ /\ AfterHead(msg, <<<<"r","e","m","e","m","b","e","r"," ">>, <<"m","y"," ">>>>) # 0
                   /\ ~IsNone(LazySplit(msg, AfterHead(msg, <<<<"r","e","m","e","m","b","e","r"," ">>, <<"m","y"," ">>>>), <<" ","i","s"," ">>))
    [] k = 2 -> /\ AfterHead(msg, <<<<"c","r","e","a","t","e"," ","t","a","s","k"," ">>, <<"a","d","d"," ","t","a","s","k"," ">>>>) # 0
                /\ ~IsNone(LazySplit(msg, AfterHead(msg, <<<<"c","r","e","a","t","e"," ","t","a","s","k"," ">>, <<"a","d","d"," ","t","a","s","k"," ">>>>),
                                     <<" ","d","u","e"," ">>))
    [] k = 3 -> /\ AfterHead(msg, <<<<"r","e","m","i","n","d"," ","m","e"," ","t","o"," ">>>>) # 0
                /\ ~IsNone(TailSplit(msg, AfterHead(msg, <<<<"r","e","m","i","n","d"," ","m","e"," ","t","o"," ">>>>)))
    [] k = 4 -> FlexStart(msg) # 0
    [] k = 5 -> \E w \in {<<"s","h","o","w"," ","t","a","s","k","s">>, <<"l","i","s","t"," ","t","a","s","k","s">>, <<"m","y"," ","t","a","s","k","s">>, <<"s","h","o","w"," ","c","h","a","t"," ","h","i","s","t","o","r","y">>,
                          <<"l","a","s","t"," ","c","h","a","t","s">>, <<"p","r","e","v","i","o","u","s"," ","m","e","s","s","a","g","e","s">>} : Contains(msg, w)
    [] k = 6 -> \E a \in 1..Len(external_apps) : Contains(msg, external_apps[a])
    [] k = 7 -> TRUE
MatchedRules(msg) == {k \in 1..7 : RuleMatches(k, msg)}
RuleAction(k, msg) ==
  CASE k = 1 -> "save_fact"
    [] k \in {2, 3, 4} -> "create_task"
    [] k = 5 -> IF \E w \in {<<"s","h","o","w"," ","t","a","s","k","s">>, <<"l","i","s","t"," ","t","a","s","k","s">>, <<"m","y"," ","t","a","s","k","s">>} : Contains(msg, w)
                THEN "fetch_tasks" ELSE "get_chat_history"
    [] k = 6 -> "open_external"
    [] k = 7 -> "general_chat"
INTENT_ACTIONS == {"general_chat", "save_fact", "create_task", "fetch_tasks",
                   "get_chat_history", "open_external"}

\* ------------------------------------------------------------ the classifier
\* C15: get_structured_intent returns for every message, never raising, and
\* what it returns is one intent; a message that matches none of the rules
\* 1-6 is classified general_chat.
C15_ClassifierTotal ==
  Returned("get_structured_intent") =>
    /\ ~NluOut.raised
    /\ NluOut.value.action \in INTENT_ACTIONS
    /\ MatchedRules(Normalised(NluIn)) = {7} => NluOut.value.action = "general_chat"

\* C19: "remember my favorite color is blue" is classified save_fact with key
\* "favorite color" and value "blue", and likewise every "remember my K is V"
\* with key K and value V.
C19_RememberMyFactKey ==
  \A f \in {<<U_COLOR, <<"f","a","v","o","r","i","t","e"," ","c","o","l","o","r">>, <<"b","l","u","e">>>>, <<U_DOG, <<"d","o","g">>, <<"r","e","x">>>>} :
    (Returned("get_structured_intent") /\ NluIn = f[1]) =>
      NluOut = Ret([action |-> "save_fact", data |-> [key |-> f[2], value |-> f[3]]])

\* C20: the intent returned is the one of the first rule, in the order 1-7,
\* whose pattern matches the normalised message; so a message matching a
\* fact-save pattern and any later rule is classified save_fact.
C20_FirstMatchingRuleWins ==
  (Returned("get_structured_intent") /\ ~NluOut.raised) =>
    NluOut.value.action =
      RuleAction(MinOf(MatchedRules(Normalised(NluIn))), Normalised(NluIn))

\* C20: "remember fact my tasks as done", which matches the fact-save rule
\* and the task keywords, was classified save_fact.
C20_Witness ==
  /\ Returned("get_structured_intent")
  /\ NluIn = U_FACT_TASKS
  /\ {1, 5} \subseteq MatchedRules(Normalised(NluIn))
  /\ NluOut = Ret([action |-> "save_fact", data |-> [key |-> <<"m","y"," ","t","a","s","k","s">>, value |-> <<"d","o","n","e">>]])

\* ------------------------------------------------------------ the time parser
\* "YYYY-MM-DD HH:MM:SS"
IsTimestamp(s) ==
  /\ Len(s) = 19
  /\ \A i \in 1..19 : IF i \in {5, 8} THEN s[i] = "-"
                      ELSE IF i = 11 THEN s[i] = " "
                      ELSE IF i \in {14, 17} THEN s[i] = ":"
                      ELSE s[i] \in DIGIT

\* C16: parse_time_string returns for every phrase, never raising: either a
\* timestamp or None; for "soon", "", "whenever" and the other phrases that
\* name no time it returns None.
C16_TimeParserNeverFaults ==
  Returned("parse_time_string") =>
    /\ ~NluOut.raised
    /\ NluOut.value = None \/ IsTimestamp(Val(NluOut.value))
    /\ NluIn \in Unresolvable => NluOut.value = None

\* The instant n units after now, n minutes or n hours.
PlusUnits(now, n, unit) ==
  IF unit \in {<<"h","o","u","r">>, <<"h","o","u","r","s">>}
  THEN Ts(now.day + ((now.hh + n) \div 24), (now.hh + n) % 24, now.mm, now.ss)
  ELSE Ts(now.day + ((now.hh + ((now.mm + n) \div 60)) \div 24),
          (now.hh + ((now.mm + n) \div 60)) % 24, (now.mm + n) % 60, now.ss)

C18_ClockTimeOnNamedDay ==
  \A c \in ClockParts :
    (Returned("parse_time_string") /\ NluIn = ClockPhrase(c)) =>
      NluOut = Ret(Some(Strftime(
                 Ts(NluNow.day + (IF c.day = <<"t","o","m","o","r","r","o","w">> THEN 1 ELSE 0),
                    (c.h % 12) + (IF c.mer \in {<<"p","m">>, <<"P","M">>} THEN 12 ELSE 0),
                    IF IsNone(c.m) THEN 0 ELSE Val(c.m), 0))))

\* C18: "12:30 am tomorrow" on the last day of 2026 was parsed to half past
\* midnight on the first day of 2027.
C18_Witness ==
  /\ Returned("parse_time_string")
  /\ NluIn = <<"1","2",":","3","0"," ","a","m"," ","t","o","m","o","r","r","o","w">>
  /\ NluNow = Ts(739981, 23, 59, 59)
  /\ NluOut = Ret(Some(<<"2","0","2","7","-","0","1","-","0","1"," ","0","0",":","3","0",":","0","0">>))

\* ------------------------------------------- store calls running together
\* main.chat hands every store call to a worker thread (run_in_threadpool), and
\* each call opens its own connection, so the calls of different requests
\* overlap.  A call is followed statement by statement.  psycopg2 opens the
\* transaction (BEGIN) before the first statement of a connection, and
\* PostgreSQL's CURRENT_TIMESTAMP is the start time of the transaction; a
\* transaction's rows are visible to the others once it has committed.
StoreCall(fn, token, text, chat_id, mode, pc, now, found, row, out) ==
  Some([fn |-> fn, token |-> token, text |-> text, chat_id |-> chat_id, mode |-> mode,
        pc |-> pc, now |-> now, found |-> found, row |-> row, out |-> out])
At_(w, fn, pc) == conn[w] # None /\ Val(conn[w]).fn = fn /\ Val(conn[w]).pc = pc
Moved(w, pc, row, out) ==
  [conn EXCEPT ![w] = Some([Val(conn[w]) EXCEPT !.pc = pc, !.row = row, !.out = out])]

\* rows other transactions have inserted into a table and not yet committed
Uncommitted(w, fn) ==
  {Val(Val(conn[v]).row) : v \in {v \in Workers \ {w} :
     conn[v] # None /\ Val(conn[v]).fn = fn /\ Val(conn[v]).pc = "inserted"}}

\* save_pending_task, line 279: the connection's first statement starts the
\* transaction,
PendingBegin(w, token, title) ==
  /\ conn[w] = None
  /\ clock' = clock + 1
  /\ conn' = [conn EXCEPT ![w] = StoreCall("save_pending_task", token, title, None, "ok",
                                           "begun", clock + 1, FALSE, None, None)]
  /\ UNCHANGED <<settings, users, tasks, pending_tasks, chat_history, chats, facts,
                 semantic, redis, uuids, turns, last, gen, pushing, pushed, cache_step,
                 fetched, nlu, context>>

\* then the INSERT runs: the row takes the next id of the sequence and the
\* transaction's timestamp,
PendingInsert(w) ==
  /\ At_(w, "save_pending_task", "begun")
  /\ conn' = Moved(w, "inserted",
                   Some(PendingRow(Len(pending_tasks)
                                     + Cardinality(Uncommitted(w, "save_pending_task")) + 1,
                                   Val(conn[w]).token.sub, Val(conn[w]).text,
                                   Val(conn[w]).now)),
                   None)
  /\ UNCHANGED <<settings, users, tasks, pending_tasks, chat_history, chats, facts,
                 semantic, redis, uuids, turns, last, gen, pushing, pushed, cache_step,
                 fetched, nlu, clock, context>>

\* and line 280 commits it.
PendingCommit(w) ==
  /\ At_(w, "save_pending_task", "inserted")
  /\ pending_tasks' = Append(pending_tasks, Val(Val(conn[w]).row))
  /\ conn' = Moved(w, "done", Val(conn[w]).row, Some(Ret(None)))
  /\ UNCHANGED <<settings, users, tasks, chat_history, chats, facts,
                 semantic, redis, uuids, turns, last, gen, pushing, pushed, cache_step,
                 fetched, nlu, clock, context>>

\* save_chat, lines 191-194: the chat id is fixed (the caller's, or a fresh
\* uuid4), and SELECT 1 FROM chats, the first statement, starts the
\* transaction and sees the committed rows.
ChatSelect(w, token, user_query, chat_id) ==
  /\ conn[w] = None
  /\ clock' = clock + 1
  /\ uuids' = IF Truthy(chat_id) THEN uuids ELSE uuids + 1
  /\ \E cid \in {IF Truthy(chat_id) THEN Val(chat_id) ELSE Uuid4(uuids + 1)} :
       conn' = [conn EXCEPT ![w] =
                  StoreCall("save_chat", token, user_query, Some(cid), "ok", "selected",
                            clock + 1, \E i \in 1..Len(chats) : chats[i].id = cid,
                            None, None)]
  /\ UNCHANGED <<settings, users, tasks, pending_tasks, chat_history, chats, facts,
                 semantic, redis, turns, last, gen, pushing, pushed, cache_step,
                 fetched, nlu, context>>

\* lines 195-196, when the SELECT found no row: INSERT INTO chats.  chats.id is
\* the primary key: the INSERT waits while another transaction holds an
\* uncommitted row with this id, and raises UniqueViolation when a committed
\* row has it.
ChatInsert(w) ==
  /\ At_(w, "save_chat", "selected") /\ ~Val(conn[w]).found
  /\ \A r \in Uncommitted(w, "save_chat") : r.id # Val(Val(conn[w]).chat_id)
  /\ conn' = IF \E i \in 1..Len(chats) : chats[i].id = Val(Val(conn[w]).chat_id)
             THEN Moved(w, "done", None, Some(Raise("UniqueViolation")))
             ELSE Moved(w, "inserted",
                        Some([id |-> Val(Val(conn[w]).chat_id),
                              user_id |-> Val(conn[w]).token.sub,
                              created_at |-> Val(conn[w]).now,
                              last_activity |-> Val(conn[w]).now]),
                        None)
  /\ UNCHANGED <<settings, users, tasks, pending_tasks, chat_history, chats, facts,
                 semantic, redis, uuids, turns, last, gen, pushing, pushed, cache_step,
                 fetched, nlu, clock, context>>

\* lines 199-210: INSERT INTO chat_history, UPDATE chats SET last_activity,
\* commit, return chat_id.
Bumped(rows, chat_id, now) ==
  [i \in 1..Len(rows) |-> IF rows[i].id = chat_id
                          THEN [rows[i] EXCEPT !.last_activity = now] ELSE rows[i]]
ChatFinish(w) ==
  /\ \/ At_(w, "save_chat", "selected") /\ Val(conn[w]).found
     \/ At_(w, "save_chat", "inserted")
  /\ chats' = Bumped(IF Val(conn[w]).row = None THEN chats
                     ELSE Append(chats, Val(Val(conn[w]).row)),
                     Val(Val(conn[w]).chat_id), Val(conn[w]).now)
  /\ chat_history' = Append(chat_history,
                            [user_id |-> Val(conn[w]).token.sub,
                             chat_id |-> Val(Val(conn[w]).chat_id),
                             user_query |-> Val(conn[w]).text,
                             ai_response |-> <<"o","k">>,
                             created_at |-> Val(conn[w]).now])
  /\ conn' = Moved(w, "done", Val(conn[w]).row, Some(Ret(Val(Val(conn[w]).chat_id))))
  /\ UNCHANGED <<settings, users, tasks, pending_tasks, facts,
                 semantic, redis, uuids, turns, last, gen, pushing, pushed, cache_step,
                 fetched, nlu, clock, context>>

\* ------------------------------------------------------ main.py, greet
\* lines 75-89: the name claim of the token, else the name of the users row
GreetName(token) ==
  IF Truthy(token.name) THEN token.name
  ELSE IF token.sub \in DOMAIN users THEN users[token.sub].name ELSE None
greeting_key(user_id) == <<"g","r","e","e","t","e","d",":">> \o Dec(user_id) \o <<":","d","a","i","l","y">>
\* lines 101-105
GreetReply(greeted, user_name) ==
  IF greeted THEN [greeted |-> TRUE, message |-> None]
  ELSE [greeted |-> FALSE,
        message |-> Some(IF Truthy(user_name)
                         THEN <<"H","e","l","l","o"," ">> \o Val(user_name)
                              \o <<"!"," ","H","o","w","'","s"," ","y","o","u","r"," ","d","a","y"," ","g","o","i","n","g","?"," ","H","o","w"," ","c","a","n"," ","I"," ","a","s","s","i","s","t"," ","y","o","u"," ","t","o","d","a","y","?">>
                         ELSE <<"H","e","l","l","o","!"," ","H","o","w"," ","c","a","n"," ","I"," ","a","s","s","i","s","t"," ","y","o","u"," ","t","o","d","a","y","?">>)]

\* lines 93-95: redis.get(greeting_key).  With Redis down get_redis_client
\* returns None, the call raises, the except clause passes and the request
\* is answered as not yet greeted.  greet runs its Redis commands inline, so
\* within one event loop nothing comes between them; the requests that
\* overlap are those served by different server processes on the same Redis.
GreetGet(w, token, mode) ==
  /\ conn[w] = None
  /\ conn' = [conn EXCEPT ![w] =
                IF mode = "ok"
                THEN StoreCall("greet", token, << >>, None, mode, "got", clock,
                               Truthy(Some(ListAt(redis, greeting_key(token.sub)))),
                               None, None)
                ELSE StoreCall("greet", token, << >>, None, mode, "done", clock, FALSE,
                               None, Some(GreetReply(FALSE, GreetName(token))))]
  /\ UNCHANGED <<settings, users, tasks, pending_tasks, chat_history, chats, facts,
                 semantic, redis, uuids, turns, last, gen, pushing, pushed, cache_step,
                 fetched, nlu, clock, context>>

\* lines 96-105: redis.set(greeting_key, "1", ex=86400) unless the marker was
\* read as set, then the reply.  The model covers one lifetime of the marker.
GreetSet(w) ==
  /\ At_(w, "greet", "got")
  /\ redis' = IF Val(conn[w]).found THEN redis
              ELSE SetList(redis, greeting_key(Val(conn[w]).token.sub), <<"1">>)
  /\ conn' = Moved(w, "done", None,
                   Some(GreetReply(Val(conn[w]).found, GreetName(Val(conn[w]).token))))
  /\ UNCHANGED <<settings, users, tasks, pending_tasks, chat_history, chats, facts,
                 semantic, uuids, turns, last, gen, pushing, pushed, cache_step,
                 fetched, nlu, clock, context>>

\* The stores when the calls start: conversation "c0" of user 1 holds one
\* turn, "c1" does not exist.
InitConc ==
  /\ settings = InitSettings /\ gen = None /\ nlu = None
  /\ users = [u \in {1, 2} |-> IF u = 1 THEN [name |-> Some(<<"a","n","n">>), email |-> Some(<<"a","n","n","@","x",".","i","o">>)]
                              ELSE [name |-> None, email |-> Some(<<"b","o","@","x",".","i","o">>)]]
  /\ chats = <<[id |-> <<"c","0">>, user_id |-> 1, created_at |-> 0, last_activity |-> 0]>>
  /\ chat_history = <<[user_id |-> 1, chat_id |-> <<"c","0">>, user_query |-> <<"q","0">>,
                       ai_response |-> <<"o","k">>, created_at |-> 0]>>
  /\ tasks = << >> /\ pending_tasks = << >> /\ facts = << >> /\ semantic = << >>
  /\ redis = << >> /\ uuids = 0 /\ turns = 0 /\ last = None
  /\ pushing = [w \in Workers |-> None] /\ pushed = << >> /\ cache_step = None
  /\ fetched = None /\ conn = [w \in Workers |-> None] /\ clock = 0
  /\ context = << >>

\* Each worker runs one call; the calls of the two overlap in every way, one
\* after the other included.
ConcTitles == [w \in Workers |-> IF w = 1 THEN <<"c","a","l","l"," ","m","o","m">> ELSE <<"p","a","y"," ","r","e","n","t">>]
ConcQueries == [w \in Workers |-> IF w = 1 THEN <<"q","1">> ELSE <<"q","2">>]
NextConc ==
  \/ \E w \in Workers, token \in Tokens : PendingBegin(w, token, ConcTitles[w])
  \/ \E w \in Workers : PendingInsert(w)
  \/ \E w \in Workers : PendingCommit(w)
  \/ \E w \in Workers, token \in Tokens, chat_id \in {None, Some(<<"c","0">>), Some(<<"c","1">>)} :
       ChatSelect(w, token, ConcQueries[w], chat_id)
  \/ \E w \in Workers : ChatInsert(w)
  \/ \E w \in Workers : ChatFinish(w)
  \/ \E w \in Workers, token \in Tokens, mode \in {"ok", "down"} : GreetGet(w, token, mode)
  \/ \E w \in Workers : GreetSet(w)

SpecConc == InitConc /\ [][NextConc]_vars

\* ------------------------------------------------------ the context bundle
\* app/services/semantic_memory.py is not part of src/.  After the
\* specification: the memory keeps the texts stored for a user, and a query
\* returns the contents of the top_k of them that match the text best, a
\* stored copy of the text itself before every other.
store_semantic_memory(rows, user_id, text) == Append(rows, <<user_id, text>>)
query_semantic_memory(rows, user_id, text, top_k) ==
  LET mine  == SelectSeq(rows, LAMBDA r : r[1] = user_id)
      exact == SelectSeq(mine, LAMBDA r : r[2] = text)
      other == SelectSeq(mine, LAMBDA r : r[2] # text)
      best  == Limit(exact \o other, top_k)
  IN [i \in 1..Len(best) |-> best[i][2]]

\* get_response, were the text not stored in semantic memory.
SemanticContextReadOnly(rows, message) ==
  IF Strip(message.text) = << >> THEN [matches |-> << >>, semantic |-> rows]
  ELSE [matches  |-> query_semantic_memory(rows, message.sender, Strip(message.text), 5),
        semantic |-> rows]

\* get_response, lines 27-45: the matches that go into the prompt, and the
\* semantic memory after the call.  A blank text returns before both.
SemanticContext(rows, message) ==
  IF Strip(message.text) = << >> THEN [matches |-> << >>, semantic |-> rows]
  ELSE [matches  |-> query_semantic_memory(rows, message.sender, Strip(message.text), 5),
        semantic |-> store_semantic_memory(rows, message.sender, Strip(message.text))]

\* The context of one request: history_text and facts_text as main.chat
\* builds them (lines 154-168) and the matches of get_response, which is
\* handed the message as the dict its signature asks for.
ContextBundle(db, user_id, utterance, chat_id, sem) ==
  [semanticMatches |-> sem.matches,
   graphFacts      |-> FactsText(db, user_id, [facts_raises |-> FALSE]),
   priorTurns      |-> HistoryText(db, user_id, chat_id)]

AggregateContext(user_id, utterance, chat_id) ==
  /\ Len(context) < MaxRuns
  /\ \E sem \in {SemanticContext(semantic, PyDict(Dec(user_id), utterance))} :
       /\ context' = Append(context,
                            [user_id |-> user_id, utterance |-> utterance,
                             chat_id |-> chat_id,
                             bundle |-> ContextBundle(DB, user_id, utterance, chat_id, sem)])
       /\ semantic' = sem.semantic
  /\ UNCHANGED <<settings, users, tasks, pending_tasks, chat_history, chats, facts,
                 redis, uuids, turns, last, gen, pushing, pushed, cache_step,
                 fetched, nlu, conn, clock>>

\* The stores a request may find: conversation "c1" of user 1 with up to two
\* turns, a fact in the graph or none, and no, one or five texts in user 1's
\* semantic memory.
InitContext ==
  /\ settings = InitSettings /\ gen = None /\ nlu = None
  /\ users = [u \in {1, 2} |-> IF u = 1 THEN [name |-> Some(<<"a","n","n">>), email |-> Some(<<"a","n","n","@","x",".","i","o">>)]
                              ELSE [name |-> None, email |-> Some(<<"b","o","@","x",".","i","o">>)]]
  /\ \E n \in 0..2 : chat_history = StoredTurns(n) /\ chats = StoredChats(n)
  /\ facts \in {<< >>, <<[key |-> <<"d","o","g">>, value |-> <<"r","e","x">>]>>}
  /\ semantic \in {<< >>, <<<<<<"1">>, <<"l","i","k","e","s"," ","t","e","a">>>>>>,
                   [i \in 1..5 |-> <<<<"1">>, <<"n","o","t","e"," ">> \o Dec(i)>>]}
  /\ tasks = << >> /\ pending_tasks = << >>
  /\ redis = << >> /\ uuids = 0 /\ turns = 0 /\ last = None
  /\ pushing = [w \in Workers |-> None] /\ pushed = << >> /\ cache_step = None
  /\ fetched = None /\ conn = [w \in Workers |-> None] /\ clock = 0
  /\ context = << >>

NextContext ==
  \E user_id \in {1, 2}, utterance \in {U_WEATHER, U_HELLO, U_BLANK},
     chat_id \in {None, Some(<<"c","1">>)} : AggregateContext(user_id, utterance, chat_id)

SpecContext == InitContext /\ [][NextContext]_vars

\* ------------------------------------------------- calls running together
Finished(w, fn) == At_(w, fn, "done")
Returned_(w, fn) == Finished(w, fn) /\ ~Val(Val(conn[w]).out).raised
RowOf(w) == Val(Val(conn[w]).row)
UserOf(w) == Val(conn[w]).token.sub
\* both threads have run fn to its end for the same user
BothFinished(fn) ==
  /\ \A w \in Workers : Finished(w, fn)
  /\ \A v, w \in Workers : UserOf(v) = UserOf(w)

\* C21: latest wins.  After two save_pending_task calls for the same user,
\* one after the other or overlapping, get_pending_task returns the title
\* whose row was written last and never the other one.
C21_LatestPendingWins ==
  \A v, w \in Workers :
    (BothFinished("save_pending_task") /\ RowOf(v).id < RowOf(w).id)
      => /\ get_pending_task(DB, UserOf(w)) # None
         /\ Val(get_pending_task(DB, UserOf(w))).title = RowOf(w).title

\* When the second call starts after the first was written, the second title
\* is the one returned.
C21_SequentialLatestWins ==
  \A v, w \in Workers :
    (BothFinished("save_pending_task") /\ RowOf(v).id < RowOf(w).id
       /\ Val(conn[v]).now < Val(conn[w]).now)
      => Val(get_pending_task(DB, UserOf(w))).title = RowOf(w).title

\* ----------------------------------------------------------- conversations
ChatIds(rows) == {rows[i].id : i \in 1..Len(rows)}
ChatRow(rows, id) == rows[CHOOSE i \in 1..Len(rows) : rows[i].id = id]
NewTurn == chat_history'[Len(chat_history')]

SameInputs(i) ==
  /\ i \in 1..(Len(context) - 1)
  /\ context[i].user_id = context[i + 1].user_id
  /\ context[i].utterance = context[i + 1].utterance
  /\ context[i].chat_id = context[i + 1].chat_id

TurnPersisted == Len(chat_history') = Len(chat_history) + 1
\* The entry at the head of the Redis list of the user and conversation under
\* which chat_history recorded the new turn is the entry of that turn.
CachedUnderStoredId ==
  \E key \in {_user_key(settings.REDIS_CHAT_HISTORY_KEY, LastUser', Some(NewTurn.chat_id))} :
    /\ key \in DOMAIN redis'
    /\ redis'[key] # << >>
    /\ redis'[key][1].user = NewTurn.user_query
    /\ redis'[key][1].bot = NewTurn.ai_response
    /\ Len(redis'[key]) > Len(ListAt(redis, key)) \/ Len(redis'[key]) = TRIM_STOP + 1

\* C24: for every persisted turn, the cache entry is pushed under the same
\* user and conversation id under which chat_history recorded the turn, also
\* for turns sent without a chat id and on every dispatch path, the greeting
\* / identity short-circuit included.
C24_CacheKeyedByStoredConversation ==
  [][(TurnPersisted /\ LastEnv'.redis = "ok") => CachedUnderStoredId]_vars

\* Outside the greeting / identity short-circuit the cache entry does follow
\* the stored id.
C24_DispatchedTurnsCachedUnderStoredId ==
  [][(TurnPersisted /\ LastEnv'.redis = "ok" /\ ~Quick(LastRequest'.user_message))
       => CachedUnderStoredId]_vars

\* The reply of this step names the conversation under which chat_history
\* recorded the new turn.
ReplyCarriesStoredId ==
  /\ "chat_id" \in DOMAIN LastResponse'.body
  /\ LastResponse'.body.chat_id = Some(NewTurn.chat_id)
SuccessReply == LastResponse'.status = 200 /\ LastResponse'.body.success

\* C25: every success reply for a turn that was persisted carries the
\* conversation id under which chat_history recorded that turn, on every
\* dispatch path, so that the client can continue the conversation.
C25_ReplyCarriesStoredConversation ==
  [][(TurnPersisted /\ SuccessReply) => ReplyCarriesStoredId]_vars

\* The replies of the create_task path, and those of the greeting / identity
\* short-circuit to a request that names a chat id, do carry it.
C25_CreateTaskReplyCarriesStoredId ==
  [][(TurnPersisted /\ SuccessReply
        /\ \/ Dispatched("create_task")'
           \/ Quick(LastRequest'.user_message) /\ Truthy(LastRequest'.chat_id))
       => ReplyCarriesStoredId]_vars

\* ----------------------------------------------- reminders without " at "
\* The message is a "remind me to T" with no " at D" part, reached by rule 3.
ReminderTail(user_message) ==
  TailSplit(Normalised(user_message), AfterHead(Normalised(user_message), <<<<"r","e","m","i","n","d"," ","m","e"," ","t","o"," ">>>>))
PlainReminder(user_message) ==
  /\ MatchedRules(Normalised(user_message)) # {}
  /\ MinOf(MatchedRules(Normalised(user_message))) = 3
  /\ IsNone(Val(ReminderTail(user_message)).g2)
ReminderTitle(user_message) == Strip(Val(ReminderTail(user_message)).g1)

\* The first time phrase in T, whole: a clock time, "today" or "tomorrow", or
\* "in N minute(s) / hour(s)" with the plural ending when T has it.  None if
\* T has no such phrase.
PhraseStart(T) == MinOf({i \in 1..Len(T) : EmbeddedLen(T, i) > 0})
PhraseEndFrom(T, i, j) ==
  IF RelMatchLen(T, i) = EmbeddedLen(T, i) /\ j <= Len(T) /\ T[j] = "s" THEN j ELSE j - 1
PhraseEnd(T) ==
  PhraseEndFrom(T, PhraseStart(T), PhraseStart(T) + EmbeddedLen(T, PhraseStart(T)))
TimePhrase(T) ==
  IF \A i \in 1..Len(T) : EmbeddedLen(T, i) = 0 THEN None
  ELSE Some(SubSeq(T, PhraseStart(T), PhraseEnd(T)))

\* C26: for "remind me to T" with no " at D" part: if T contains a clock-time,
\* day or relative phrase, the phrase is stripped from the title, which no
\* longer contains it, and datetime is what parse_time_string returns for the
\* phrase; if T contains no such phrase, the title is T and datetime is None.
C26_EmbeddedPhraseLeavesTitle ==
  (Returned("get_structured_intent") /\ PlainReminder(NluIn) /\ ~NluOut.raised) =>
    \E T \in {ReminderTitle(NluIn)} :
      /\ NluOut.value.action = "create_task"
      /\ IF IsNone(TimePhrase(T))
         THEN /\ NluOut.value.data.title = T
              /\ NluOut.value.data.datetime = None
         ELSE /\ NluOut.value.data.title = Strip(Remove(T, Val(TimePhrase(T))))
              /\ ~Contains(NluOut.value.data.title, Val(TimePhrase(T)))
              /\ NluOut.value.data.datetime =
                   parse_time_string(Val(TimePhrase(T)), NluNow).value

\* What does hold: a clock time or a day word that stands once in T is taken
\* out of the title, and a title without a phrase is returned as it is.
C26_SingleClockOrDayStripped ==
  (Returned("get_structured_intent") /\ PlainReminder(NluIn) /\ ~NluOut.raised) =>
    \E T \in {ReminderTitle(NluIn)} :
      /\ NluOut.value.action = "create_task"
      /\ IsNone(TimePhrase(T)) =>
           /\ NluOut.value.data.title = T
           /\ NluOut.value.data.datetime = None
      /\ (~IsNone(TimePhrase(T)) /\ RelMatchLen(T, PhraseStart(T)) = 0
            /\ ~Contains(Strip(Remove(T, Val(TimePhrase(T)))), Val(TimePhrase(T)))) =>
           /\ NluOut.value.data.title = Strip(Remove(T, Val(TimePhrase(T))))
           /\ NluOut.value.data.datetime =
                parse_time_string(Val(TimePhrase(T)), NluNow).value

\* ------------------------------------------------ two save_chat calls, one id
\* Both threads have run save_chat to its end for chat id "c1", which no
\* conversation had when they started.
BothAppended ==
  \A w \in Workers : Finished(w, "save_chat") /\ Val(conn[w]).chat_id = Some(<<"c","1">>)
TurnsUnder(id) == SelectSeq(chat_history, LAMBDA r : r.chat_id = id)

\* C27: two save_chat calls that run together and name the same chat id, not
\* yet in chats, both return under every interleaving, and leave exactly one
\* conversation with that id and both turns stored under it.
C27_ConcurrentAppendsBothStored ==
  BothAppended =>
    /\ \A w \in Workers : ~Val(Val(conn[w]).out).raised
    /\ Len(SelectSeq(chats, LAMBDA r : r.id = <<"c","1">>)) = 1
    /\ Len(TurnsUnder(<<"c","1">>)) = 2

\* Two save_chat calls that overlap on an existing conversation: the one that
\* commits last writes its own, earlier, transaction time.
ActivityNeverSetBack ==
  [][\A id \in ChatIds(chats) :
       ChatRow(chats', id).last_activity >= ChatRow(chats, id).last_activity]_vars

\* What does hold: the id never names two conversations, and when the second
\* call starts after the first has committed, both turns are stored.
C27_OneConversationPerId ==
  /\ Len(chats) = Cardinality(ChatIds(chats))
  /\ \A w \in Workers :
       (BothAppended /\ Val(conn[w]).found) =>
         /\ \A v \in Workers : ~Val(Val(conn[v]).out).raised
         /\ Len(TurnsUnder(<<"c","1">>)) = 2

\* ------------------------------------------------------- the daily greeting
\* Every greet request so far found Redis up and is for the same user.
GreetsOfOneUser ==
  \A v, w \in Workers :
    (conn[v] # None /\ conn[w] # None /\ Val(conn[v]).fn = "greet" /\ Val(conn[w]).fn = "greet")
      => /\ Val(conn[v]).mode = "ok"
         /\ UserOf(v) = UserOf(w)
Greeted(w) == Finished(w, "greet") /\ ~Val(Val(conn[w]).out).greeted

\* C28: with Redis available and within the marker's lifetime, under any
\* interleaving of greet requests for one user at most one request returns a
\* greeting message (greeted false); all others return greeted true with no
\* message, and a second marker write leaves the marker set.
C28_OneGreetingPerDay ==
  GreetsOfOneUser =>
    /\ Cardinality({w \in Workers : Greeted(w)}) <= 1
    /\ \A w \in Workers :
         (Finished(w, "greet") /\ ~Greeted(w)) =>
           Val(Val(conn[w]).out) = [greeted |-> TRUE, message |-> None]
    /\ \A w \in Workers :
         Finished(w, "greet") => Truthy(Some(ListAt(redis, greeting_key(UserOf(w)))))

\* What does hold: once a request has written the marker, every request that
\* reads it afterwards returns greeted true with no message, and the marker
\* stays set.
C28_GreetedOnceMarkerIsRead ==
  GreetsOfOneUser =>
    /\ \A w \in Workers :
         (conn[w] # None /\ Val(conn[w]).fn = "greet" /\ Val(conn[w]).found) =>
           /\ \E v \in Workers \ {w} : Greeted(v)
           /\ Finished(w, "greet") =>
                Val(Val(conn[w]).out) = [greeted |-> TRUE, message |-> None]
    /\ \A w \in Workers :
         Finished(w, "greet") => Truthy(Some(ListAt(redis, greeting_key(UserOf(w)))))

====
